---- MODULE Spec2Model ----
(***************************************************************************)
(* Model of src/main.py: the Binance futures webhook bot with the          *)
(* reinforcement ladder.                                                   *)
(*                                                                         *)
(* Two threads act on the shared state.  The event-loop thread runs        *)
(* process_trading_signal (an async function without any await inside, so  *)
(* one signal is handled at a time) and the /cleanup endpoint; the daemon  *)
(* thread runs monitor_loop.  The exchange (orders, exposure), the Google  *)
(* Sheets ledger (State sheet and history sheet) and the clock are the     *)
(* environment.  Every gateway call and every ledger call may fail the way *)
(* the code handles it (exception caught, default returned).               *)
(*                                                                         *)
(* An order id is the index of the order in `orders`.  The clock is kept   *)
(* as what the code compares it with: `young` holds the records (named by  *)
(* their tp_order_id, written together with the timestamp) whose timestamp *)
(* is less than the grace period old, and `hour` counts the steps of one   *)
(* dedup TTL (3600 s) that have passed; an alert's timestamp is the value  *)
(* of `hour` when it was recorded.  The statuses CANCELED and EXPIRED are  *)
(* told apart nowhere in the code, the model writes CANCELED for both.     *)
(***************************************************************************)
EXTENDS Integers, Sequences, FiniteSets, TLC

\* ------------------------------------------------------------- bounds
MaxOrders == 2       \* bracket orders created on the exchange by the process
MaxHist == 3         \* rows of the history sheet
MaxHours == 2        \* steps of the clock, of the dedup TTL each
MaxCancelCalls == 2  \* cancel_order calls counted per stop-loss order
MaxLocks == 2        \* Lock objects created by get_symbol_lock

\* ------------------------------------------------------- program constants
TTL == 3600          \* dedup TTL, seconds (main.py:1043)
MaxRetries == 3      \* max_retries of place_tp_sl_orders_with_retry (main.py:526)
NoId == 0            \* tp_order_id / sl_order_id None
NoTime == -1         \* alert id absent from processed_alerts

Symbols == {"A", "B"}
Traded == {"A"}                   \* the symbols the signals name
Directions == {"BUY", "SELL"}
Times == {1}                      \* values of data["time"]
Prices == {0, 2000, 2000000}      \* values of data["price"]; 0 is "missing"
Signals == Directions \cup {""}   \* "" is a missing signal

\* LEVELS (main.py:258-264); capital in tenths of a USDT, percentages in 1/1000
LEVELS == <<
  [capital |-> 10,  leverage |-> 50, tp_pct |-> 3, sl_pct |-> 3],
  [capital |-> 20,  leverage |-> 50, tp_pct |-> 3, sl_pct |-> 3],
  [capital |-> 45,  leverage |-> 50, tp_pct |-> 3, sl_pct |-> 3],
  [capital |-> 95,  leverage |-> 50, tp_pct |-> 3, sl_pct |-> 3],
  [capital |-> 160, leverage |-> 65, tp_pct |-> 3, sl_pct |-> 3] >>

NLevels == Len(LEVELS)

AlertIds == Symbols \X Directions \X Times

\* alert_id = f"{symbol}_{signal}_{data.get('time', '')}"  (main.py:1039)
AlertId(sym, sig, t) == <<sym, sig, t>>

VARIABLES
  ledger,     \* last row of the State sheet: [positions, processed_alerts]
  history,    \* rows of the history sheet
  orders,     \* bracket orders on the exchange: Seq of [sym, typ, status, old, cancel_calls]
  exPos,      \* exPos[s]: the account holds an open position in s
  young,      \* tp_order_id of the records whose timestamp is under 15 s old
  hour,       \* the clock, in steps of HourStep seconds
  lock,       \* lock[s]: "free", "H" (signal handler) or "M" (monitor)
  hpc,        \* handler: the place of process_trading_signal it is at
  hin,        \* handler: the signal being handled (or the last one handled)
  hstate,     \* handler: state = load_state()
  hpath,      \* handler: "reinf" or "new", the opening path taken
  hlevel,     \* handler: the ladder level being opened
  hentry,     \* handler: what became of the market entry order, "CANCEL_SENT"
              \* once cancel_order was called for it
  htp, hsl,   \* handler: tp_order_id, sl_order_id of the open in progress
  htries,     \* handler: failed attempts of the bracket order being placed
  hres,       \* handler: outcome of the last signal
  hcalls,     \* handler: a gateway call was made for the signal
  hdup,       \* handler: the signal's alert id was recorded within the TTL at intake
  mpc,        \* monitor: the place of monitor_loop it is at
  mstate,     \* monitor: state = load_state() of the tick
  mi,         \* monitor: index of the symbol of the tick's for loop
  mtp, msl,   \* monitor: tp_active, sl_active
  mposact,    \* monitor: position_active
  many,       \* monitor: has_any_tp_sl
  merr,       \* monitor: the except block of main.py:829-830 ran for the symbol just left
  qty,        \* a call of calculate_quantity: its arguments and what it returned
  brk,        \* a call of place_tp_sl_orders_with_retry: its arguments and the orders it sends
  lk,         \* state_lock, symbol_locks and the two threads' calls of get_symbol_lock
  gpa         \* a call of get_position_amount: what the exchange answers and what it returned

hvars == <<hpc, hin, hstate, hpath, hlevel, hentry, htp, hsl, htries, hres, hcalls, hdup>>
mvars == <<mpc, mstate, mi, mtp, msl, mposact, many, merr>>
envvars == <<orders, exPos, young, hour>>
vars == <<ledger, history, orders, exPos, young, hour, lock, hvars, mvars, qty, brk, lk, gpa>>

\* ------------------------------------------------------------ the ledger
\* {"positions": {}, "processed_alerts": {}}  (main.py:209, 219, 223)
EmptyState == [positions |-> <<>>, processed_alerts |-> [a \in AlertIds |-> NoTime]]

\* positions is a dict keyed by symbol, in insertion order
Idx(ps, s) == IF \E i \in 1..Len(ps) : ps[i].symbol = s
              THEN CHOOSE i \in 1..Len(ps) : ps[i].symbol = s
              ELSE 0
Has(ps, s) == Idx(ps, s) # 0
Get(ps, s) == ps[Idx(ps, s)]

\* positions[s] = r and position.update(...): the entry of key s is replaced
\* in place, a new key is appended
PutAppend(ps, s, r) == Append(ps, r)
Put(ps, s, r) == IF Has(ps, s) THEN [ps EXCEPT ![Idx(ps, s)] = r] ELSE Append(ps, r)

\* ---------------------------------------------------------- the exchange
OpenStatus == {"NEW"}
IsOpenOrder(i) == orders[i].status \in OpenStatus
\* the orders resting on the exchange, of any symbol
OpenOrders == {i \in 1..Len(orders) : IsOpenOrder(i)}
\* open orders of type STOP_MARKET / TAKE_PROFIT_MARKET of the symbol
OpenBrackets(s) == {i \in 1..Len(orders) : orders[i].sym = s /\ IsOpenOrder(i)}

\* get_position_amount (main.py:470-505): f1 = the open-orders query fails,
\* f2 = the account query fails.  1 stands for an amount > 0.
GetPositionAmount(s, f1, f2) ==
  IF ~f1
  THEN (IF OpenBrackets(s) # {} THEN 1 ELSE 0)
  ELSE (IF ~f2 /\ exPos[s] THEN 1 ELSE 0)

\* safe_position_check (main.py:507-523): f0 = its own open-orders query fails
SafePositionCheck(s, f0, f1, f2) ==
  IF f0 THEN 1
  ELSE IF OpenBrackets(s) = {} THEN 0
  ELSE GetPositionAmount(s, f1, f2)

\* get_order_status (main.py:461-468): None when the query fails
GetOrderStatus(id, f) == IF f THEN "None" ELSE orders[id].status

\* futures_cancel_order on the orders of C
CancelSet(C) == [i \in 1..Len(orders) |->
                   IF i \in C /\ orders[i].status = "NEW"
                   THEN [orders[i] EXCEPT !.status = "CANCELED"]
                   ELSE orders[i]]

\* calculate_quantity / round_qty (main.py:380-395), in lot steps of 0.001:
\* capital (tenths) x leverage x 100 / price, rounded down
CalculateQuantity(capital, leverage, price) == (capital * leverage * 100) \div price

\* ----------------------------------------------------------- the records
\* the record written by a successful open (main.py:1005-1018, 1131-1146)
OpenRecord(s, sig, lvl, tp, sl) ==
  [symbol |-> s, signal |-> sig, current_level |-> lvl, is_active |-> TRUE,
   capital |-> LEVELS[lvl].capital, leverage |-> LEVELS[lvl].leverage,
   tp_order_id |-> tp, sl_order_id |-> sl,
   pending_reinforcement |-> FALSE, next_level |-> 1]

\* position.update on the reinforcement path keeps next_level (main.py:1005-1018)
ReinforcedRecord(old, sig, lvl, tp, sl) ==
  [OpenRecord(old.symbol, sig, lvl, tp, sl) EXCEPT !.next_level = old.next_level]

\* position["is_active"] = False (main.py:730, 764, 795, 846, 912, 1074, 1534)
Deactivate(st, s) ==
  [st EXCEPT !.positions = Put(@, s, [Get(@, s) EXCEPT !.is_active = FALSE])]

\* handle_reinforcement (main.py:840-860), without its save_state
HandleReinforcementNoClose(st, s, current_level) ==
  IF current_level + 1 > NLevels
  THEN Deactivate(st, s)
  ELSE [st EXCEPT !.positions = Put(@, s, [Get(@, s) EXCEPT
          !.pending_reinforcement = TRUE, !.next_level = current_level + 1])]
HandleReinforcementNoCap(st, s, current_level) ==
  [st EXCEPT !.positions = Put(@, s, [Get(@, s) EXCEPT
      !.is_active = FALSE, !.pending_reinforcement = TRUE,
      !.next_level = current_level + 1])]
HandleReinforcement(st, s, current_level) ==
  IF current_level + 1 > NLevels
  THEN Deactivate(st, s)
  ELSE [st EXCEPT !.positions = Put(@, s, [Get(@, s) EXCEPT
          !.is_active = FALSE, !.pending_reinforcement = TRUE,
          !.next_level = current_level + 1])]

\* rows of the history sheet (add_trading_record, main.py:118-177)
\* pos identifies the position the row is about (the sheet row tells it by its
\* symbol, level and timestamps): the tp_order_id of the position's record
HistRow(typ, s, lvl, ctype, pos) ==
  [type |-> typ, symbol |-> s, level |-> lvl, close_type |-> ctype, pos |-> pos]

NoInput == [sym |-> "A", sig |-> "", price |-> 0, time |-> 1]
NoResult == [status |-> "none", reason |-> ""]

\* ------------------------------------------------------------- the start
\* The State sheet and the exchange outlive the process.  It starts on an
\* empty sheet, or on what an earlier run left: closed records (of a BUY) and
\* their finished bracket orders.
PriorRecord(s, lvl, pending, nl, tp) ==
  [OpenRecord(s, "BUY", lvl, tp, tp + 1) EXCEPT
     !.is_active = FALSE, !.pending_reinforcement = pending, !.next_level = nl]

\* the bracket orders of a position closed by its stop-loss / its take-profit
PriorOrdersSL(s) ==
  << [sym |-> s, typ |-> "TP", status |-> "CANCELED", old |-> TRUE, cancel_calls |-> 0],
     [sym |-> s, typ |-> "SL", status |-> "FILLED", old |-> TRUE, cancel_calls |-> 0] >>
PriorOrdersTP(s) ==
  << [sym |-> s, typ |-> "TP", status |-> "FILLED", old |-> TRUE, cancel_calls |-> 0],
     [sym |-> s, typ |-> "SL", status |-> "CANCELED", old |-> TRUE, cancel_calls |-> 1] >>

PriorAlerts(A) == [a \in AlertIds |-> IF a \in A THEN 0 ELSE NoTime]

\* the first start
StartFirst == [ledger |-> EmptyState, orders |-> <<>>]
\* level 1 was stopped out, its alert is still recorded
StartStopped1 ==
  [ledger |-> [positions |-> << PriorRecord("A", 1, TRUE, 2, 1) >>,
               processed_alerts |-> PriorAlerts({AlertId("A", "BUY", 1)})],
   orders |-> PriorOrdersSL("A")]
\* B took its profit at level 1, A was stopped out at level 4
StartStopped4 ==
  [ledger |-> [positions |-> << PriorRecord("B", 1, FALSE, 1, 1),
                                PriorRecord("A", 4, TRUE, 5, 3) >>,
               processed_alerts |-> PriorAlerts({})],
   orders |-> PriorOrdersTP("B") \o PriorOrdersSL("A")]
\* A took its profit at level 3
StartProfit3 ==
  [ledger |-> [positions |-> << PriorRecord("A", 3, FALSE, 3, 1) >>,
               processed_alerts |-> PriorAlerts({})],
   orders |-> PriorOrdersTP("A")]
\* A was stopped out at the top level
StartStoppedTop ==
  [ledger |-> [positions |-> << PriorRecord("A", 5, FALSE, 5, 1) >>,
               processed_alerts |-> PriorAlerts({})],
   orders |-> PriorOrdersSL("A")]

Starts == {StartFirst, StartStopped1, StartStopped4, StartProfit3, StartStoppedTop}
\* the starts followed with the history sheet
StartsHist == {StartStopped4}

InitOf(S) ==
  /\ \E st \in S : ledger = st.ledger /\ orders = st.orders
  /\ history = <<>>
  /\ exPos = [s \in Symbols |-> FALSE]
  /\ young = {}
  /\ hour = 0
  /\ lock = [s \in Symbols |-> "free"]
  /\ hpc = "idle" /\ hin = NoInput /\ hstate = EmptyState /\ hlevel = 0
  /\ hpath = "" /\ hentry = ""
  /\ htp = NoId /\ hsl = NoId /\ htries = 0 /\ hres = NoResult
  /\ hcalls = FALSE /\ hdup = FALSE
  /\ mpc = "sleep" /\ mstate = EmptyState /\ mi = 0
  /\ mtp = FALSE /\ msl = FALSE /\ mposact = 0 /\ many = FALSE /\ merr = FALSE

FloatZero == [m |-> <<>>, e |-> 0]
NoCall == [capital |-> <<0, 0>>, leverage |-> 0, price |-> <<0, 0>>, step |-> <<0, 0>>,
           called |-> FALSE, returned |-> FloatZero]

NoBracketCall ==
  [entry |-> <<0, 0>>, tick |-> <<0, 0>>, signal |-> "", level |-> 0, fails |-> FALSE,
   called |-> FALSE, tp_price |-> FloatZero, sl_price |-> FloatZero,
   tp_side |-> "", sl_side |-> "", close_position |-> FALSE]

\* no call of get_position_amount yet.  open_types: the types of the symbol's
\* open orders, f1 / f2: the open-orders / the account query raises, row: the
\* account lists the symbol, amt: its positionAmt (negative for a short)
NoPositionCall ==
  [open_types |-> {}, f1 |-> FALSE, f2 |-> FALSE, row |-> FALSE, amt |-> 0,
   called |-> FALSE, returned |-> 0]

\* state_lock = threading.Lock(); symbol_locks = {}  (main.py:267-268), with
\* both threads outside get_symbol_lock.  A Lock object is a number from 1,
\* NoId stands for "no object".
Threads == {"H", "M"}
NoLocks ==
  [state_lock |-> "free",
   symbol_locks |-> [s \in Symbols |-> NoId],
   made |-> [s \in Symbols |-> 0],
   owner |-> [l \in 1..MaxLocks |-> "free"],
   pc |-> [t \in Threads |-> "idle"],
   sym |-> [t \in Threads |-> "A"],
   got |-> [t \in Threads |-> NoId],
   raced |-> FALSE]

Init == InitOf(Starts) /\ qty = NoCall /\ brk = NoBracketCall /\ lk = NoLocks /\ gpa = NoPositionCall
InitHist == InitOf(StartsHist) /\ qty = NoCall /\ brk = NoBracketCall /\ lk = NoLocks /\ gpa = NoPositionCall

\* ------------------------------------------------------------ ledger calls
\* load_state (main.py:205-223): the empty state when the sheet cannot be read
LoadState(fail) == IF fail THEN EmptyState ELSE ledger
\* save_state (main.py:180-203, 280-284): a failure is logged and ignored
SaveState(st, fail) == IF fail THEN ledger ELSE st
\* add_to_history (main.py:286-290): a failure is logged and ignored
AddToHistory(row, fail) ==
  IF fail \/ Len(history) >= MaxHist THEN history ELSE Append(history, row)

\* ------------------------------------------------ process_trading_signal
HSym == hin.sym
HAlert == AlertId(hin.sym, hin.sig, hin.time)

Result(st, why) == [status |-> st, reason |-> why]

\* (a variant for comparison) the release stands at the end of the try body
\* instead of a finally: only the successful open gives the lock back
HFinishNoFinally(res, entry) ==
  /\ hpc' = "done" /\ hres' = res /\ hcalls' = TRUE
  /\ hstate' = EmptyState /\ hpath' = "" /\ hlevel' = 0 /\ hentry' = entry
  /\ htp' = NoId /\ hsl' = NoId /\ htries' = 0
  /\ lock' = [lock EXCEPT ![HSym] = IF @ = "H" /\ res.status = "success" THEN "free" ELSE @]
  /\ UNCHANGED <<hin, hdup>>

\* the return / raise of process_trading_signal with its finally: lock.release()
\* entry: what the handler last did about its entry order before leaving
HFinishWith(res, entry) ==
  /\ hpc' = "done" /\ hres' = res /\ hcalls' = TRUE
  /\ hstate' = EmptyState /\ hpath' = "" /\ hlevel' = 0 /\ hentry' = entry
  /\ htp' = NoId /\ hsl' = NoId /\ htries' = 0
  /\ lock' = [lock EXCEPT ![HSym] = IF @ = "H" THEN "free" ELSE @]
  /\ UNCHANGED <<hin, hdup>>

HFinish(res) == HFinishWith(res, "")

\* the duplicate test of main.py:1040-1055 on the loaded processed_alerts:
\* entries older than the TTL are pruned when the alert id is present
HourStep == TTL
\* (a variant for comparison) an entry is pruned once it is TTL seconds old
OldAtTTL(ts, t) == (t - ts) * HourStep >= TTL
\* current_time - timestamp > 3600 (main.py:1043)
Old(ts, t) == (t - ts) * HourStep > TTL
Pruned(pa, t) == [a \in AlertIds |-> IF pa[a] # NoTime /\ Old(pa[a], t) THEN NoTime ELSE pa[a]]
IsDuplicate(pa, a, t) == pa[a] # NoTime /\ Pruned(pa, t)[a] # NoTime
RecordAlert(pa, a, t) ==
  [(IF pa[a] # NoTime THEN Pruned(pa, t) ELSE pa) EXCEPT ![a] = t]

\* webhook + main.py:867-870: a signal arrives; a missing signal or price is refused
Receive(s, sig, p, t) ==
  /\ hpc = "idle"
  /\ hin' = [sym |-> s, sig |-> sig, price |-> p, time |-> t]
  /\ IF sig = "" \/ p = 0
     THEN /\ hres' = Result("exception", "missing_signal_or_price")
          /\ hdup' = FALSE
          /\ hpc' = "done"
     ELSE /\ hres' = NoResult
          /\ hdup' = (LET ts == ledger.processed_alerts[AlertId(s, sig, t)]
                      IN ts # NoTime /\ ~Old(ts, hour))
          /\ hpc' = "h_pos0"
  /\ hcalls' = FALSE
  /\ UNCHANGED <<ledger, history, envvars, lock, mvars,
                 hstate, hpath, hlevel, hentry, htp, hsl, htries>>
  /\ UNCHANGED <<qty, brk, lk, gpa>>

\* main.py:874-887: the first get_position_amount
HPos0(f1, f2) ==
  /\ hpc = "h_pos0"
  /\ IF GetPositionAmount(HSym, f1, f2) > 0
     THEN HFinish(Result("ignored", "position_already_active_on_binance"))
     ELSE /\ hpc' = "h_lock" /\ hcalls' = TRUE
          /\ UNCHANGED <<lock, hin, hstate, hpath, hlevel, hentry, htp, hsl, htries, hres, hdup>>
  /\ UNCHANGED <<ledger, history, envvars, mvars>>
  /\ UNCHANGED <<qty, brk, lk, gpa>>

\* main.py:889-897: lock.acquire(timeout=15), then load_state
HLock(fl) ==
  /\ hpc = "h_lock"
  /\ lock[HSym] = "free"
  /\ lock' = [lock EXCEPT ![HSym] = "H"]
  /\ hstate' = LoadState(fl)
  /\ hpc' = "h_clean"
  /\ UNCHANGED <<ledger, history, envvars, mvars,
                 hin, hpath, hlevel, hentry, htp, hsl, htries, hres, hcalls, hdup>>
  /\ UNCHANGED <<qty, brk, lk, gpa>>

\* (a variant for comparison) the acquire's result is not tested: the handler goes on without the lock.
HLockTimeoutIgnored ==
  /\ hpc = "h_lock"
  /\ lock[HSym] # "free"
  /\ hstate' = LoadState(FALSE)
  /\ hpc' = "h_clean"
  /\ UNCHANGED <<ledger, history, envvars, mvars, lock,
                 hin, hpath, hlevel, hentry, htp, hsl, htries, hres, hcalls, hdup>>
  /\ UNCHANGED <<qty, brk, lk, gpa>>

\* main.py:891-892: the acquire times out while the monitor holds the lock
HLockTimeout ==
  /\ hpc = "h_lock"
  /\ lock[HSym] # "free"
  /\ HFinish(Result("exception", "lock_timeout"))
  /\ UNCHANGED <<ledger, history, envvars, mvars>>
  /\ UNCHANGED <<qty, brk, lk, gpa>>

\* (a variant for comparison) the handler's cleanup stages the reinforcement
\* the way the monitor's stop-loss path does
CleanedStagingReinforcement(st, s) ==
  IF Has(st.positions, s) /\ Get(st.positions, s).is_active
  THEN [st EXCEPT !.positions = Put(@, s, [Get(@, s) EXCEPT
          !.is_active = FALSE, !.pending_reinforcement = TRUE,
          !.next_level = Get(st.positions, s).current_level + 1])]
  ELSE st

\* the in-memory state after main.py:901-928
Cleaned(st, s) ==
  IF Has(st.positions, s) /\ Get(st.positions, s).is_active THEN Deactivate(st, s) ELSE st

\* (a variant for comparison) the cleanup of the orphan record is saved at once
HCleanSaved(C, fh) ==
  /\ hpc = "h_clean"
  /\ IF Has(hstate.positions, HSym) /\ Get(hstate.positions, HSym).is_active
     THEN /\ C \in SUBSET OpenBrackets(HSym)
          /\ orders' = CancelSet(C)
          /\ history' = AddToHistory(
               HistRow("POSITION_CLOSED", HSym, Get(hstate.positions, HSym).current_level,
                       "AUTO_CLEANUP_PRE_OPEN", Get(hstate.positions, HSym).tp_order_id), fh)
          /\ ledger' = Cleaned(hstate, HSym)
     ELSE /\ C = {}
          /\ UNCHANGED <<orders, history, ledger>>
  /\ hstate' = Cleaned(hstate, HSym)
  /\ hpc' = "h_route"
  /\ UNCHANGED <<exPos, young, hour, lock, mvars,
                 hin, hpath, hlevel, hentry, htp, hsl, htries, hres, hcalls, hdup>>
  /\ UNCHANGED <<qty, brk, lk, gpa>>

\* main.py:899-928: an active record with real_position_amount == 0 (always 0
\* here) is cleaned in memory: cancel_all_orders_for_symbol, history row
HClean(C, fh) ==
  /\ hpc = "h_clean"
  /\ IF Has(hstate.positions, HSym) /\ Get(hstate.positions, HSym).is_active
     THEN /\ C \in SUBSET OpenBrackets(HSym)
          /\ orders' = CancelSet(C)
          /\ history' = AddToHistory(
               HistRow("POSITION_CLOSED", HSym, Get(hstate.positions, HSym).current_level,
                       "AUTO_CLEANUP_PRE_OPEN", Get(hstate.positions, HSym).tp_order_id), fh)
     ELSE /\ C = {}
          /\ UNCHANGED <<orders, history>>
  /\ hstate' = Cleaned(hstate, HSym)
  /\ hpc' = "h_route"
  /\ UNCHANGED <<ledger, exPos, young, hour, lock, mvars,
                 hin, hpath, hlevel, hentry, htp, hsl, htries, hres, hcalls, hdup>>
  /\ UNCHANGED <<qty, brk, lk, gpa>>

\* main.py:930-946: an invalid next_level of a pending record is reset
ResetPending(st, s) ==
  [st EXCEPT !.positions = Put(@, s, [Get(@, s) EXCEPT
      !.is_active = FALSE, !.pending_reinforcement = FALSE, !.next_level = 1])]

\* (a variant for comparison) the routing goes by the next_level left in the record
RouteByNextLevel(st, s) ==
  IF Has(st.positions, s) /\ Get(st.positions, s).next_level > 1
  THEN (IF Get(st.positions, s).next_level > NLevels THEN "reset" ELSE "reinf")
  ELSE "new"

\* (a variant for comparison) the duplicate test stands before the test of
\* pending_reinforcement: a recorded alert never reaches the reinforcement
RouteDuplicatesFirst(st, s) ==
  IF IsDuplicate(st.processed_alerts, HAlert, hour) THEN "new"
  ELSE IF Has(st.positions, s) /\ Get(st.positions, s).pending_reinforcement
  THEN (IF Get(st.positions, s).next_level > NLevels THEN "reset" ELSE "reinf")
  ELSE "new"

\* which way process_trading_signal goes on the loaded state (main.py:933-947)
IsPending(st, s) == Has(st.positions, s) /\ Get(st.positions, s).pending_reinforcement
Route(st, s) ==
  IF IsPending(st, s)
  THEN (IF Get(st.positions, s).next_level > NLevels THEN "reset" ELSE "reinf")
  ELSE "new"

\* the level a reinforcement opens at: next_level (main.py:936, 952)
ReinfLevel(st, s) == Get(st.positions, s).next_level

\* main.py:930-959 and 1037-1085: the routing between the reinforcement path
\* and the level-1 path, the duplicate test, the quantity test.  f1, f2 are the
\* failures of the get_position_amount of main.py:1063; fs the failure of the
\* save_state of main.py:946.
HRoute(f1, f2, fs) ==
  /\ hpc = "h_route"
  /\ LET r == Route(hstate, HSym)
         st1 == IF r = "reset" THEN ResetPending(hstate, HSym) ELSE hstate
     IN
     /\ ledger' = IF r = "reset" THEN SaveState(st1, fs) ELSE ledger
     /\ (r # "reset" => fs = FALSE)
     /\ IF r = "reinf"
        THEN /\ f1 = FALSE /\ f2 = FALSE
             /\ IF CalculateQuantity(LEVELS[ReinfLevel(hstate, HSym)].capital,
                                     LEVELS[ReinfLevel(hstate, HSym)].leverage, hin.price) <= 0
                THEN HFinish(Result("exception", "quantity_invalid"))
                ELSE /\ hpc' = "h_final" /\ hpath' = "reinf"
                     /\ hlevel' = ReinfLevel(hstate, HSym)
                     /\ UNCHANGED <<lock, hin, hstate, hentry, htp, hsl, htries, hres, hcalls, hdup>>
        ELSE IF IsDuplicate(st1.processed_alerts, HAlert, hour)
        THEN /\ f1 = FALSE /\ f2 = FALSE
             /\ HFinish(Result("ignored", "duplicate_alert"))
        ELSE LET st2 == [st1 EXCEPT !.processed_alerts = RecordAlert(@, HAlert, hour)]
                 act == Has(st2.positions, HSym) /\ Get(st2.positions, HSym).is_active
             IN
             /\ (~act => f1 = FALSE /\ f2 = FALSE)
             /\ IF act /\ GetPositionAmount(HSym, f1, f2) # 0
                THEN HFinish(Result("ignored", "position_already_open_in_state"))
                ELSE IF CalculateQuantity(LEVELS[1].capital, LEVELS[1].leverage, hin.price) <= 0
                THEN HFinish(Result("exception", "quantity_invalid"))
                ELSE /\ hpc' = "h_final" /\ hpath' = "new" /\ hlevel' = 1
                     /\ hstate' = Cleaned(st2, HSym)
                     /\ UNCHANGED <<lock, hin, hentry, htp, hsl, htries, hres, hcalls, hdup>>
  /\ UNCHANGED <<history, envvars, mvars>>
  /\ UNCHANGED <<qty, brk, lk, gpa>>

\* main.py:960-968 and 1087-1095: the last get_position_amount before the order
FinalCheck(s, f1, f2) == GetPositionAmount(s, f1, f2)

HFinal(f1, f2) ==
  /\ hpc = "h_final"
  /\ IF FinalCheck(HSym, f1, f2) > 0
     THEN HFinish(Result("error", IF hpath = "reinf"
                                   THEN "position_conflict_during_reinforcement"
                                   ELSE "position_conflict_final_check"))
     ELSE /\ hpc' = "h_lev"
          /\ UNCHANGED <<lock, hin, hstate, hpath, hlevel, hentry, htp, hsl, htries,
                         hres, hcalls, hdup>>
  /\ UNCHANGED <<ledger, history, envvars, mvars>>
  /\ UNCHANGED <<qty, brk, lk, gpa>>

\* place_binance_order, main.py:600-604: futures_change_leverage
HLeverage(f) ==
  /\ hpc = "h_lev"
  /\ IF f
     THEN HFinish(Result("exception", "binance_error"))
     ELSE /\ hpc' = "h_entry"
          /\ UNCHANGED <<lock, hin, hstate, hpath, hlevel, hentry, htp, hsl, htries,
                         hres, hcalls, hdup>>
  /\ UNCHANGED <<ledger, history, envvars, mvars>>
  /\ UNCHANGED <<qty, brk, lk, gpa>>

\* place_binance_order, main.py:606-618: the MARKET entry order.  outcome:
\* "ERROR" the call raises; "FILLED" the order executes and the account holds
\* a position; "REJECTED" the order is accepted and ends without execution.
Created == {i \in 1..Len(orders) : ~orders[i].old}

\* (a variant for comparison) a failed submission of the entry order is not
\* propagated: the wait and the bracket placement follow
HEntryErrorIgnored(outcome) ==
  /\ hpc = "h_entry"
  /\ (outcome # "ERROR" => Cardinality(Created) + 2 <= MaxOrders)
  /\ hpc' = "h_wait"
  /\ hentry' = IF outcome = "ERROR" THEN hentry ELSE outcome
  /\ exPos' = IF outcome = "FILLED" THEN [exPos EXCEPT ![HSym] = TRUE] ELSE exPos
  /\ UNCHANGED <<lock, hin, hstate, hpath, hlevel, htp, hsl, htries, hres, hcalls, hdup>>
  /\ UNCHANGED <<ledger, history, orders, young, hour, mvars>>
  /\ UNCHANGED <<qty, brk, lk, gpa>>

HEntry(outcome) ==
  /\ hpc = "h_entry"
  /\ (outcome # "ERROR" => Cardinality(Created) + 2 <= MaxOrders)
  /\ IF outcome = "ERROR"
     THEN /\ HFinish(Result("exception", "binance_error"))
          /\ UNCHANGED exPos
     ELSE /\ hpc' = "h_wait" /\ hentry' = outcome
          /\ exPos' = IF outcome = "FILLED" THEN [exPos EXCEPT ![HSym] = TRUE] ELSE exPos
          /\ UNCHANGED <<lock, hin, hstate, hpath, hlevel, htp, hsl, htries, hres, hcalls, hdup>>
  /\ UNCHANGED <<ledger, history, orders, young, hour, mvars>>
  /\ UNCHANGED <<qty, brk, lk, gpa>>

\* (a variant for comparison) no fallback: the wait raises when no poll saw the fill
HWaitNoFallback(seen, ft) ==
  /\ hpc = "h_wait"
  /\ (seen => hentry = "FILLED" /\ ft = FALSE)
  /\ IF ~seen
     THEN HFinish(Result("exception", "binance_error"))
     ELSE /\ hpc' = "h_tp"
          /\ UNCHANGED <<lock, hin, hstate, hpath, hlevel, hentry, htp, hsl, htries,
                         hres, hcalls, hdup>>
  /\ UNCHANGED <<ledger, history, envvars, mvars>>
  /\ UNCHANGED <<qty, brk, lk, gpa>>

\* wait_for_order_execution (main.py:398-424): seen = some poll returns FILLED
\* with a price; otherwise the ticker price is taken, ft = the ticker call raises
HWait(seen, ft) ==
  /\ hpc = "h_wait"
  /\ (seen => hentry = "FILLED" /\ ft = FALSE)
  /\ IF ~seen /\ ft
     THEN HFinish(Result("exception", "binance_error"))
     ELSE /\ hpc' = "h_tp"
          /\ UNCHANGED <<lock, hin, hstate, hpath, hlevel, hentry, htp, hsl, htries,
                         hres, hcalls, hdup>>
  /\ UNCHANGED <<ledger, history, envvars, mvars>>
  /\ UNCHANGED <<qty, brk, lk, gpa>>

\* one attempt of a retry loop of place_tp_sl_orders_with_retry (main.py:554-593)
NewOrder(s, typ) ==
  [sym |-> s, typ |-> typ, status |-> "NEW", old |-> FALSE, cancel_calls |-> 0]

\* (a variant for comparison) one attempt more than max_retries for the TP
HPlaceTPFourTries(f) ==
  /\ hpc = "h_tp"
  /\ IF f
     THEN /\ IF htries + 1 >= MaxRetries + 1
             THEN hpc' = "h_sl" /\ htries' = 0
             ELSE hpc' = hpc /\ htries' = htries + 1
          /\ UNCHANGED <<orders, htp>>
     ELSE /\ orders' = Append(orders, NewOrder(HSym, "TP"))
          /\ htp' = Len(orders) + 1
          /\ hpc' = "h_sl" /\ htries' = 0
  /\ UNCHANGED <<ledger, history, exPos, young, hour, lock, mvars,
                 hin, hstate, hpath, hlevel, hentry, hsl, hres, hcalls, hdup>>
  /\ UNCHANGED <<qty, brk, lk, gpa>>

HPlaceTP(f) ==
  /\ hpc = "h_tp"
  /\ IF f
     THEN /\ IF htries + 1 >= MaxRetries
             THEN hpc' = "h_sl" /\ htries' = 0
             ELSE hpc' = hpc /\ htries' = htries + 1
          /\ UNCHANGED <<orders, htp>>
     ELSE /\ orders' = Append(orders, NewOrder(HSym, "TP"))
          /\ htp' = Len(orders) + 1
          /\ hpc' = "h_sl" /\ htries' = 0
  /\ UNCHANGED <<ledger, history, exPos, young, hour, lock, mvars,
                 hin, hstate, hpath, hlevel, hentry, hsl, hres, hcalls, hdup>>
  /\ UNCHANGED <<qty, brk, lk, gpa>>

HPlaceSL(f) ==
  /\ hpc = "h_sl"
  /\ IF f
     THEN /\ IF htries + 1 >= MaxRetries
             THEN hpc' = "h_commit" /\ htries' = 0
             ELSE hpc' = hpc /\ htries' = htries + 1
          /\ UNCHANGED <<orders, hsl>>
     ELSE /\ orders' = Append(orders, NewOrder(HSym, "SL"))
          /\ hsl' = Len(orders) + 1
          /\ hpc' = "h_commit" /\ htries' = 0
  /\ UNCHANGED <<ledger, history, exPos, young, hour, lock, mvars,
                 hin, hstate, hpath, hlevel, hentry, htp, hres, hcalls, hdup>>
  /\ UNCHANGED <<qty, brk, lk, gpa>>

\* main.py:975-983 and 1102-1110: are both bracket orders there
BracketsPlacedAlways(tp, sl) == TRUE
BracketsPlaced(tp, sl) == tp # NoId /\ sl # NoId

\* the state written by a successful open (main.py:1004-1018, 1130-1146)
OpenedState(st, s, path, sig, lvl, tp, sl) ==
  [st EXCEPT !.positions =
     Put(@, s, IF path = "reinf"
               THEN ReinforcedRecord(Get(@, s), sig, lvl, tp, sl)
               ELSE OpenRecord(s, sig, lvl, tp, sl))]

\* (a variant for comparison) with one bracket id missing the handler also
\* cancels the bracket order that was placed
HCommitCancelsPlaced(fh, fs) ==
  /\ hpc = "h_commit"
  /\ IF ~BracketsPlaced(htp, hsl)
     THEN /\ fs = FALSE
          /\ orders' = CancelSet({htp, hsl} \ {NoId})
          /\ UNCHANGED <<ledger, history, young>>
          /\ HFinishWith(Result("exception", "tp_sl_failed"), "CANCEL_SENT")
     ELSE /\ history' = AddToHistory(
               HistRow(IF hpath = "reinf" THEN "REINFORCEMENT_OPENED" ELSE "POSITION_OPENED",
                       HSym, hlevel, "", htp), fh)
          /\ ledger' = SaveState(
               OpenedState(hstate, HSym, hpath, hin.sig, hlevel, htp, hsl), fs)
          /\ young' = young \cup {htp}
          /\ UNCHANGED orders
          /\ HFinish(Result("success", hpath))
  /\ UNCHANGED <<exPos, hour, mvars>>
  /\ UNCHANGED <<qty, brk, lk, gpa>>

\* main.py:975-1035 and 1102-1165: the check of the bracket ids, the history
\* row, the update of the record, save_state, the result.  With a bracket id
\* missing, cancel_order is called for the entry order (980, 1107) and the
\* exception is raised; the cancel of an executed market order changes nothing
\* on the exchange.
HCommit(fh, fs) ==
  /\ hpc = "h_commit"
  /\ IF ~BracketsPlaced(htp, hsl)
     THEN /\ fs = FALSE
          /\ UNCHANGED <<ledger, history, young>>
          /\ HFinishWith(Result("exception", "tp_sl_failed"), "CANCEL_SENT")
     ELSE /\ history' = AddToHistory(
               HistRow(IF hpath = "reinf" THEN "REINFORCEMENT_OPENED" ELSE "POSITION_OPENED",
                       HSym, hlevel, "", htp), fh)
          /\ ledger' = SaveState(
               OpenedState(hstate, HSym, hpath, hin.sig, hlevel, htp, hsl), fs)
          /\ young' = young \cup {htp}
          /\ HFinish(Result("success", hpath))
  /\ UNCHANGED <<orders, exPos, hour, mvars>>
  /\ UNCHANGED <<qty, brk, lk, gpa>>

\* the result has gone back to the caller
HReturn ==
  /\ hpc = "done"
  /\ hpc' = "idle" /\ hin' = NoInput /\ hres' = NoResult
  /\ hcalls' = FALSE /\ hdup' = FALSE /\ hentry' = ""
  /\ UNCHANGED <<ledger, history, envvars, lock, mvars,
                 hstate, hpath, hlevel, htp, hsl, htries>>
  /\ UNCHANGED <<qty, brk, lk, gpa>>

\* ------------------------------------------------------------ monitor_loop
MRec == mstate.positions[mi]
MSym == MRec.symbol

\* the finally: lock.release() of main.py:831-832 and the next symbol of the loop
MNext ==
  /\ lock' = [lock EXCEPT ![MSym] = "free"]
  /\ mi' = mi + 1 /\ mpc' = "iter"
  /\ mtp' = FALSE /\ msl' = FALSE /\ mposact' = 0 /\ many' = FALSE

\* main.py:640-643: a tick begins with load_state
MLoad(fl) ==
  /\ mpc = "sleep"
  /\ mstate' = LoadState(fl)
  /\ mi' = 1 /\ mpc' = "iter"
  /\ UNCHANGED <<ledger, history, envvars, lock, hvars, mtp, msl, mposact, many>>
  /\ UNCHANGED merr
  /\ UNCHANGED <<qty, brk, lk, gpa>>

\* time_diff < 15 (main.py:650-662)
InGrace(rec) == rec.tp_order_id \in young

\* (a variant for comparison) the result of the acquire is not tested: the
\* symbol is processed whether or not the lock was obtained
MIterNoSkip ==
  /\ mpc = "iter"
  /\ IF mi > Len(mstate.positions)
     THEN /\ mpc' = "sleep" /\ mstate' = EmptyState /\ mi' = 0
          /\ UNCHANGED lock
     ELSE IF ~mstate.positions[mi].is_active \/ mstate.positions[mi].tp_order_id \in young
     THEN /\ mi' = mi + 1
          /\ UNCHANGED <<mpc, mstate, lock>>
     ELSE /\ lock' = [lock EXCEPT ![mstate.positions[mi].symbol] = IF @ = "free" THEN "M" ELSE @]
          /\ mpc' = "tp1"
          /\ UNCHANGED <<mstate, mi>>
  /\ UNCHANGED <<ledger, history, envvars, hvars, mtp, msl, mposact, many>>
  /\ merr' = FALSE
  /\ UNCHANGED <<qty, brk, lk, gpa>>

\* main.py:645-666: the next symbol of the tick: inactive and young records are
\* skipped, and so is a symbol whose lock is taken
MIter ==
  /\ mpc = "iter"
  /\ IF mi > Len(mstate.positions)
     THEN /\ mpc' = "sleep" /\ mstate' = EmptyState /\ mi' = 0
          /\ UNCHANGED lock
     ELSE IF ~MRec.is_active \/ InGrace(MRec) \/ lock[MSym] # "free"
     THEN /\ mi' = mi + 1
          /\ UNCHANGED <<mpc, mstate, lock>>
     ELSE /\ lock' = [lock EXCEPT ![MSym] = "M"]
          /\ mpc' = "tp1"
          /\ UNCHANGED <<mstate, mi>>
  /\ UNCHANGED <<ledger, history, envvars, hvars, mtp, msl, mposact, many>>
  /\ merr' = FALSE
  /\ UNCHANGED <<qty, brk, lk, gpa>>

\* tp_active / sl_active of main.py:681-687 from the status of the first query
BracketActive(id, status) ==
  IF id # NoId THEN status \notin {"FILLED", "CANCELED", "EXPIRED"} ELSE FALSE

MTp1(f) ==
  /\ mpc = "tp1"
  /\ (MRec.tp_order_id = NoId => f = FALSE)
  /\ mtp' = BracketActive(MRec.tp_order_id,
                          IF MRec.tp_order_id # NoId
                          THEN GetOrderStatus(MRec.tp_order_id, f) ELSE "None")
  /\ mpc' = "sl1"
  /\ UNCHANGED <<ledger, history, envvars, lock, hvars, mstate, mi, msl, mposact, many>>
  /\ UNCHANGED merr
  /\ UNCHANGED <<qty, brk, lk, gpa>>

MSl1(f) ==
  /\ mpc = "sl1"
  /\ (MRec.sl_order_id = NoId => f = FALSE)
  /\ msl' = BracketActive(MRec.sl_order_id,
                          IF MRec.sl_order_id # NoId
                          THEN GetOrderStatus(MRec.sl_order_id, f) ELSE "None")
  /\ mpc' = "spc"
  /\ UNCHANGED <<ledger, history, envvars, lock, hvars, mstate, mi, mtp, mposact, many>>
  /\ UNCHANGED merr
  /\ UNCHANGED <<qty, brk, lk, gpa>>

\* main.py:689-690: position_active = safe_position_check(symbol)
MSpc(f0, f1, f2) ==
  /\ mpc = "spc"
  /\ mposact' = SafePositionCheck(MSym, f0, f1, f2)
  /\ mpc' = "all"
  /\ UNCHANGED <<ledger, history, envvars, lock, hvars, mstate, mi, mtp, msl, many>>
  /\ UNCHANGED merr
  /\ UNCHANGED <<qty, brk, lk, gpa>>

\* (a variant for comparison) the take-profit branch is entered without the
\* test of tp_active
DecideWithoutActiveTest(tp, sl, pos, any) ==
  IF ~tp /\ ~sl /\ ~any /\ pos = 0 THEN "manual"
  ELSE IF pos = 0 /\ (tp \/ sl \/ any) THEN "cleanup"
  ELSE "tp2"

\* the branch of main.py:701-803 taken on what the queries returned
Decide(tp, sl, pos, any) ==
  IF ~tp /\ ~sl /\ ~any /\ pos = 0 THEN "manual"
  ELSE IF pos = 0 /\ (tp \/ sl \/ any) THEN "cleanup"
  ELSE IF tp THEN "tp2"
  ELSE IF sl THEN "sl2"
  ELSE "none"

\* main.py:692-697: has_any_tp_sl, True when the query fails; then the branch
MAll(f) ==
  /\ mpc = "all"
  /\ LET any == IF f THEN TRUE ELSE OpenBrackets(MSym) # {}
         d == Decide(mtp, msl, mposact, any)
     IN IF d = "none"
        THEN MNext
        ELSE /\ many' = any /\ mpc' = d
             /\ UNCHANGED <<lock, mi, mtp, msl, mposact>>
  /\ UNCHANGED <<ledger, history, envvars, hvars, mstate>>
  /\ UNCHANGED merr
  /\ UNCHANGED <<qty, brk, lk, gpa>>

\* (a variant for comparison) no try around the symbol: the exception of the
\* ticker call is caught by the tick's handler only and the tick is given up
MManualAbandonsTick(ft, fh, fs) ==
  /\ mpc = "manual"
  /\ IF ft
     THEN /\ fs = FALSE
          /\ mpc' = "sleep" /\ mi' = 0
          /\ lock' = [lock EXCEPT ![MSym] = "free"]
          /\ mtp' = FALSE /\ msl' = FALSE /\ mposact' = 0 /\ many' = FALSE
          /\ UNCHANGED <<ledger, history, mstate>>
     ELSE /\ history' = AddToHistory(
               HistRow("POSITION_CLOSED", MSym, MRec.current_level, "MANUAL_CLOSE",
                       MRec.tp_order_id), fh)
          /\ mstate' = Deactivate(mstate, MSym)
          /\ ledger' = SaveState(mstate', fs)
          /\ MNext
  /\ UNCHANGED <<envvars, hvars>>
  /\ merr' = ft
  /\ UNCHANGED <<qty, brk, lk, gpa>>

\* main.py:703-732: SCENARIO 1, the manual close.  ft = the ticker call raises
\* (the exception is caught at main.py:829)
MManual(ft, fh, fs) ==
  /\ mpc = "manual"
  /\ IF ft
     THEN /\ fs = FALSE
          /\ UNCHANGED <<ledger, history, mstate>>
     ELSE /\ history' = AddToHistory(
               HistRow("POSITION_CLOSED", MSym, MRec.current_level, "MANUAL_CLOSE",
                       MRec.tp_order_id), fh)
          /\ mstate' = Deactivate(mstate, MSym)
          /\ ledger' = SaveState(mstate', fs)
  /\ MNext
  /\ UNCHANGED <<envvars, hvars>>
  /\ merr' = ft
  /\ UNCHANGED <<qty, brk, lk, gpa>>

\* main.py:734-766: SCENARIO 2, the cleanup: cancel_all_orders_for_symbol
\* cancels the orders of C (each cancel may fail), then as the manual close
MCleanup(C, ft, fh, fs) ==
  /\ mpc = "cleanup"
  /\ C \in SUBSET OpenBrackets(MSym)
  /\ orders' = CancelSet(C)
  /\ IF ft
     THEN /\ fs = FALSE
          /\ UNCHANGED <<ledger, history, mstate>>
     ELSE /\ history' = AddToHistory(
               HistRow("POSITION_CLOSED", MSym, MRec.current_level, "AUTO_CLEANUP",
                       MRec.tp_order_id), fh)
          /\ mstate' = Deactivate(mstate, MSym)
          /\ ledger' = SaveState(mstate', fs)
  /\ MNext
  /\ UNCHANGED <<exPos, young, hour, hvars>>
  /\ merr' = ft
  /\ UNCHANGED <<qty, brk, lk, gpa>>

\* status in ("FILLED", "TRIGGERED") of the second query (main.py:772, 803)
SeenFilled(status) == status \in {"FILLED", "TRIGGERED"}

\* cancel_order (main.py:426-438) of the other bracket order; fc = it fails
CancelOrder(id, fc) ==
  IF id = NoId \/ fc THEN orders ELSE CancelSet({id})

\* the cancel_order of main.py:776-777; cancel_calls counts the calls that the
\* take-profit branch makes for the stop-loss order
CancelOther(id, fc) ==
  IF id = NoId THEN orders
  ELSE [CancelOrder(id, fc) EXCEPT
          ![id].cancel_calls = IF @ < MaxCancelCalls THEN @ + 1 ELSE @]

\* main.py:770-797: the take-profit branch
MTp2(f, fc, fh, fs) ==
  /\ mpc = "tp2"
  /\ IF SeenFilled(GetOrderStatus(MRec.tp_order_id, f))
     THEN /\ orders' = CancelOther(MRec.sl_order_id, fc)
          /\ history' = AddToHistory(
               HistRow("POSITION_CLOSED", MSym, MRec.current_level, "TAKE_PROFIT",
                       MRec.tp_order_id), fh)
          /\ mstate' = Deactivate(mstate, MSym)
          /\ ledger' = SaveState(mstate', fs)
          /\ MNext
     ELSE /\ fc = FALSE /\ fs = FALSE
          /\ IF msl
             THEN /\ mpc' = "sl2"
                  /\ UNCHANGED <<lock, mi, mtp, msl, mposact, many>>
             ELSE MNext
          /\ UNCHANGED <<ledger, history, orders, mstate>>
  /\ UNCHANGED <<exPos, young, hour, hvars>>
  /\ UNCHANGED merr
  /\ UNCHANGED <<qty, brk, lk, gpa>>

\* main.py:800-827: the stop-loss branch, with handle_reinforcement and its save
MSl2(f, fc, fh, fs) ==
  /\ mpc = "sl2"
  /\ IF SeenFilled(GetOrderStatus(MRec.sl_order_id, f))
     THEN /\ orders' = CancelOrder(MRec.tp_order_id, fc)
          /\ history' = AddToHistory(
               HistRow("POSITION_CLOSED", MSym, MRec.current_level, "STOP_LOSS",
                       MRec.tp_order_id), fh)
          /\ mstate' = HandleReinforcement(mstate, MSym, MRec.current_level)
          /\ ledger' = SaveState(mstate', fs)
     ELSE /\ fc = FALSE /\ fs = FALSE
          /\ UNCHANGED <<ledger, history, orders, mstate>>
  /\ MNext
  /\ UNCHANGED <<exPos, young, hour, hvars>>
  /\ UNCHANGED merr
  /\ UNCHANGED <<qty, brk, lk, gpa>>

\* ------------------------------------------------------- POST /cleanup/{symbol}
\* cleanup_symbol (main.py:1524-1545), served by the event loop between signals
CleanupSymbol(s, C, fl, fs) ==
  /\ hpc = "idle"
  /\ C \in SUBSET OpenBrackets(s)
  /\ orders' = CancelSet(C)
  /\ IF Has(LoadState(fl).positions, s)
     THEN ledger' = SaveState(Deactivate(LoadState(fl), s), fs)
     ELSE fs = FALSE /\ UNCHANGED ledger
  /\ UNCHANGED <<history, exPos, young, hour, lock, hvars, mvars>>
  /\ UNCHANGED <<qty, brk, lk, gpa>>

\* --------------------------------------------------------- the environment
\* a resting bracket order is triggered, executes and closes the position
Fill(i) ==
  /\ i \in 1..Len(orders)
  /\ orders[i].status = "NEW" /\ exPos[orders[i].sym]
  /\ orders' = [orders EXCEPT ![i].status = "FILLED"]
  /\ exPos' = [exPos EXCEPT ![orders[i].sym] = FALSE]
  /\ UNCHANGED <<ledger, history, young, hour, lock, hvars, mvars>>
  /\ UNCHANGED <<qty, brk, lk, gpa>>

\* a resting order leaves the book: expired by the exchange or removed by hand
Expire(i) ==
  /\ i \in 1..Len(orders)
  /\ orders[i].status = "NEW"
  /\ orders' = [orders EXCEPT ![i].status = "CANCELED"]
  /\ UNCHANGED <<ledger, history, exPos, young, hour, lock, hvars, mvars>>
  /\ UNCHANGED <<qty, brk, lk, gpa>>

\* the position is closed by hand on the exchange
ManualClose(s) ==
  /\ exPos[s]
  /\ exPos' = [exPos EXCEPT ![s] = FALSE]
  /\ UNCHANGED <<ledger, history, orders, young, hour, lock, hvars, mvars>>
  /\ UNCHANGED <<qty, brk, lk, gpa>>

\* the clock: the oldest young record reaches the age of the grace period
Oldest(S) == CHOOSE i \in S : \A j \in S : i <= j

TickGrace ==
  /\ young # {}
  /\ young' = young \ {Oldest(young)}
  /\ UNCHANGED <<ledger, history, orders, exPos, hour, lock, hvars, mvars>>
  /\ UNCHANGED <<qty, brk, lk, gpa>>

\* the clock: the dedup TTL passes once more (a step that no recorded alert
\* could tell from the one before is left out)
Fresh(pa) == \E a \in AlertIds : pa[a] # NoTime /\ ~Old(pa[a], hour)
TickHour ==
  /\ hour < MaxHours
  /\ Fresh(ledger.processed_alerts) \/ Fresh(hstate.processed_alerts)
       \/ Fresh(mstate.processed_alerts)
  /\ hour' = hour + 1
  /\ young' = {}
  /\ UNCHANGED <<ledger, history, orders, exPos, lock, hvars, mvars>>
  /\ UNCHANGED <<qty, brk, lk, gpa>>

\* FH: the outcomes of the history-sheet calls (does the append fail)
\* the steps of process_trading_signal but the timeout of lock.acquire, which
\* takes another thread holding the lock
HandlerAlone(FH) ==
  \/ \E s \in Traded, sig \in Signals, p \in Prices, t \in Times : Receive(s, sig, p, t)
  \/ \E f1, f2 \in BOOLEAN : HPos0(f1, f2)
  \/ \E fl \in BOOLEAN : HLock(fl)
  \/ \E C \in SUBSET OpenOrders, fh \in FH : HClean(C, fh)
  \/ \E f1, f2, fs \in BOOLEAN : HRoute(f1, f2, fs)
  \/ \E f1, f2 \in BOOLEAN : HFinal(f1, f2)
  \/ \E f \in BOOLEAN : HLeverage(f)
  \/ \E o \in {"ERROR", "FILLED", "REJECTED"} : HEntry(o)
  \/ \E seen, ft \in BOOLEAN : HWait(seen, ft)
  \/ \E f \in BOOLEAN : HPlaceTP(f)
  \/ \E f \in BOOLEAN : HPlaceSL(f)
  \/ \E fh \in FH, fs \in BOOLEAN : HCommit(fh, fs)
  \/ HReturn

Handler(FH) ==
  \/ HandlerAlone(FH)
  \/ HLockTimeout
  \/ \E s \in Traded, C \in SUBSET OpenOrders, fl, fs \in BOOLEAN :
        CleanupSymbol(s, C, fl, fs)

Monitor(FH) ==
  \/ \E fl \in BOOLEAN : MLoad(fl)
  \/ MIter
  \/ \E f \in BOOLEAN : MTp1(f)
  \/ \E f \in BOOLEAN : MSl1(f)
  \/ \E f0, f1, f2 \in BOOLEAN : MSpc(f0, f1, f2)
  \/ \E f \in BOOLEAN : MAll(f)
  \/ \E ft, fs \in BOOLEAN, fh \in FH : MManual(ft, fh, fs)
  \/ \E C \in SUBSET OpenOrders, ft, fs \in BOOLEAN, fh \in FH :
        MCleanup(C, ft, fh, fs)
  \/ \E f, fc, fs \in BOOLEAN, fh \in FH : MTp2(f, fc, fh, fs)
  \/ \E f, fc, fs \in BOOLEAN, fh \in FH : MSl2(f, fc, fh, fs)

Environment ==
  \/ \E i \in 1..Len(orders) : Fill(i)
  \/ \E i \in 1..Len(orders) : Expire(i)
  \/ \E s \in Symbols : ManualClose(s)
  \/ TickGrace

NextOf(FH) ==
  \/ Handler(FH)
  \/ hpc # "done" /\ Monitor(FH)
  \/ hpc # "done" /\ Environment

\* The history sheet is only ever appended to, nothing reads it: no step of
\* the program depends on it.  Spec leaves it unwritten (every append fails
\* the way add_to_history lets it fail); SpecHist follows it, with every
\* append succeeding, from the starts of StartsHist.
Next == NextOf({TRUE})
Spec == Init /\ [][Next]_vars

NextHist == NextOf({FALSE})
SpecHist == InitHist /\ [][NextHist]_vars

\* The three saves of process_trading_signal: the starts are the empty sheet,
\* the sheet with A pending after its level-1 stop, and a sheet whose pending
\* record names a next_level beyond the ladder (written under a longer LEVELS
\* table or by hand; the program itself never stages one, main.py:842-848)
StartInvalid ==
  [ledger |-> [positions |-> << PriorRecord("A", NLevels, TRUE, NLevels + 1, 1) >>,
               processed_alerts |-> PriorAlerts({AlertId("A", "BUY", 1)})],
   orders |-> PriorOrdersSL("A")]

InitPersist ==
  /\ InitOf({StartFirst, StartStopped1, StartInvalid})
  /\ qty = NoCall /\ brk = NoBracketCall /\ lk = NoLocks /\ gpa = NoPositionCall
SpecPersist == InitPersist /\ [][Next]_vars

\* with the steps of the clock, from the start where A took its profit at
\* level 1 and the alert that opened the position is still recorded
StartRecorded ==
  [ledger |-> [positions |-> << PriorRecord("A", 1, FALSE, 1, 1) >>,
               processed_alerts |-> PriorAlerts({AlertId("A", "BUY", 1)})],
   orders |-> PriorOrdersTP("A")]

InitTTL == InitOf({StartRecorded}) /\ qty = NoCall /\ brk = NoBracketCall /\ lk = NoLocks /\ gpa = NoPositionCall
NextTTL == Next \/ (hpc # "done" /\ TickHour)
SpecTTL == InitTTL /\ [][NextTTL]_vars

\* The monitor left to itself: a level-1 BUY on A has just been opened (the
\* state Spec is in after its first accepted signal), no further signal
\* arrives, every gateway and sheet call succeeds, and the loop keeps ticking.
StartOpened ==
  [ledger |-> [positions |-> << OpenRecord("A", "BUY", 1, 1, 2) >>,
               processed_alerts |-> PriorAlerts({AlertId("A", "BUY", 1)})],
   orders |-> << NewOrder("A", "TP"), NewOrder("A", "SL") >>]

InitLive ==
  /\ ledger = StartOpened.ledger /\ orders = StartOpened.orders
  /\ history = <<>>
  /\ exPos = [s \in Symbols |-> s = "A"]
  /\ young = {1}
  /\ hour = 0
  /\ lock = [s \in Symbols |-> "free"]
  /\ hpc = "idle" /\ hin = NoInput /\ hstate = EmptyState /\ hlevel = 0
  /\ hpath = "" /\ hentry = ""
  /\ htp = NoId /\ hsl = NoId /\ htries = 0 /\ hres = NoResult
  /\ hcalls = FALSE /\ hdup = FALSE
  /\ mpc = "sleep" /\ mstate = EmptyState /\ mi = 0
  /\ mtp = FALSE /\ msl = FALSE /\ mposact = 0 /\ many = FALSE /\ merr = FALSE
  /\ qty = NoCall /\ brk = NoBracketCall /\ lk = NoLocks /\ gpa = NoPositionCall

MonitorLive ==
  \/ MLoad(FALSE)
  \/ MIter
  \/ MTp1(FALSE)
  \/ MSl1(FALSE)
  \/ MSpc(FALSE, FALSE, FALSE)
  \/ MAll(FALSE)
  \/ MManual(FALSE, FALSE, FALSE)
  \/ \E C \in SUBSET OpenOrders : MCleanup(C, FALSE, FALSE, FALSE)
  \/ MTp2(FALSE, FALSE, FALSE, FALSE)
  \/ MSl2(FALSE, FALSE, FALSE, FALSE)

NextLive == MonitorLive \/ Environment
SpecLive == InitLive /\ [][NextLive]_vars /\ WF_vars(MonitorLive) /\ WF_vars(TickGrace)

\* The same loop with a stray order on the book: a first open placed its TP,
\* failed its SL three times and was given up (main.py:1102-1110 cancels the
\* entry order only), the next signal opened the position with orders 2 and 3.
StartStray ==
  [ledger |-> [positions |-> << OpenRecord("A", "BUY", 1, 2, 3) >>,
               processed_alerts |-> PriorAlerts({AlertId("A", "BUY", 1)})],
   orders |-> << NewOrder("A", "TP"), NewOrder("A", "TP"), NewOrder("A", "SL") >>]

InitStray ==
  /\ ledger = StartStray.ledger /\ orders = StartStray.orders
  /\ history = <<>>
  /\ exPos = [s \in Symbols |-> s = "A"]
  /\ young = {2}
  /\ hour = 0
  /\ lock = [s \in Symbols |-> "free"]
  /\ hpc = "idle" /\ hin = NoInput /\ hstate = EmptyState /\ hlevel = 0
  /\ hpath = "" /\ hentry = ""
  /\ htp = NoId /\ hsl = NoId /\ htries = 0 /\ hres = NoResult
  /\ hcalls = FALSE /\ hdup = FALSE
  /\ mpc = "sleep" /\ mstate = EmptyState /\ mi = 0
  /\ mtp = FALSE /\ msl = FALSE /\ mposact = 0 /\ many = FALSE /\ merr = FALSE
  /\ qty = NoCall /\ brk = NoBracketCall /\ lk = NoLocks /\ gpa = NoPositionCall

SpecStray == InitStray /\ [][NextLive]_vars

\* Spec from the first start with its threads running: a handler that has
\* taken up a signal goes on to its return (process_trading_signal holds no
\* await, its polls and retry loops are bounded), and the monitor thread keeps
\* taking its steps.  Nothing is assumed of the arrival of signals nor of the
\* exchange.
HandlerRuns == hpc # "idle" /\ Handler({TRUE})
InitFair == InitOf({StartFirst}) /\ qty = NoCall /\ brk = NoBracketCall /\ lk = NoLocks /\ gpa = NoPositionCall
SpecFair == InitFair /\ [][Next]_vars /\ WF_vars(HandlerRuns) /\ WF_vars(Monitor({TRUE}))

\* The monitor with every failure of its calls, on two open positions left by
\* an earlier run (A and B at level 1, their brackets resting, B opened less
\* than the grace period ago), no signal arriving.  The loop is a thread of its own: whenever it can take a step it
\* eventually takes one.
Resting(s, typ) == [NewOrder(s, typ) EXCEPT !.old = TRUE]
StartTwo ==
  [ledger |-> [positions |-> << OpenRecord("A", "BUY", 1, 1, 2),
                                OpenRecord("B", "BUY", 1, 3, 4) >>,
               processed_alerts |-> PriorAlerts({AlertId("A", "BUY", 1),
                                                 AlertId("B", "BUY", 1)})],
   orders |-> << Resting("A", "TP"), Resting("A", "SL"),
                 Resting("B", "TP"), Resting("B", "SL") >>]

InitMon ==
  /\ ledger = StartTwo.ledger /\ orders = StartTwo.orders
  /\ history = <<>>
  /\ exPos = [s \in Symbols |-> TRUE]
  /\ young = {3}
  /\ hour = 0
  /\ lock = [s \in Symbols |-> "free"]
  /\ hpc = "idle" /\ hin = NoInput /\ hstate = EmptyState /\ hlevel = 0
  /\ hpath = "" /\ hentry = ""
  /\ htp = NoId /\ hsl = NoId /\ htries = 0 /\ hres = NoResult
  /\ hcalls = FALSE /\ hdup = FALSE
  /\ mpc = "sleep" /\ mstate = EmptyState /\ mi = 0
  /\ mtp = FALSE /\ msl = FALSE /\ mposact = 0 /\ many = FALSE /\ merr = FALSE
  /\ qty = NoCall /\ brk = NoBracketCall /\ lk = NoLocks /\ gpa = NoPositionCall

NextMon == Monitor({TRUE}) \/ Environment
SpecMon == InitMon /\ [][NextMon]_vars /\ WF_vars(Monitor({TRUE}))

\* The handler ahead of the monitor: A, stopped at level 1 by an earlier run,
\* was reinforced at level 2 less than the grace period ago and its stop-loss
\* has just been filled: the position is closed, the take-profit still rests,
\* the monitor has not seen it yet.  The history sheet is followed.
StartReinforced ==
  [ledger |-> [positions |-> << ReinforcedRecord(PriorRecord("A", 1, TRUE, 2, 1), "BUY", 2, 1, 2) >>,
               processed_alerts |-> PriorAlerts({AlertId("A", "BUY", 1)})],
   orders |-> << Resting("A", "TP"), [Resting("A", "SL") EXCEPT !.status = "FILLED"] >>]

InitClean ==
  /\ ledger = StartReinforced.ledger /\ orders = StartReinforced.orders
  /\ history = <<>>
  /\ exPos = [s \in Symbols |-> FALSE]
  /\ young = {1}
  /\ hour = 0
  /\ lock = [s \in Symbols |-> "free"]
  /\ hpc = "idle" /\ hin = NoInput /\ hstate = EmptyState /\ hlevel = 0
  /\ hpath = "" /\ hentry = ""
  /\ htp = NoId /\ hsl = NoId /\ htries = 0 /\ hres = NoResult
  /\ hcalls = FALSE /\ hdup = FALSE
  /\ mpc = "sleep" /\ mstate = EmptyState /\ mi = 0
  /\ mtp = FALSE /\ msl = FALSE /\ mposact = 0 /\ many = FALSE /\ merr = FALSE
  /\ qty = NoCall /\ brk = NoBracketCall /\ lk = NoLocks /\ gpa = NoPositionCall

\* process_trading_signal with every failure of its calls and the exchange,
\* before the monitor's next tick
NextClean ==
  \/ HandlerAlone({FALSE})
  \/ hpc # "done" /\ Environment
SpecClean == InitClean /\ [][NextClean]_vars

\* ---------------------------------------------------------------------------
\* The quantity computation (round_qty, calculate_quantity), on binary64 values.
\* A natural number is its sequence of bits, most significant first, <<>> for 0;
\* a float is [m, e] with a 53-bit m and the value m * 2^e; a decimal is [c, x]
\* with the value c * 10^x.  Recursions split index ranges in halves, and an
\* operator binds the values it works on (CHOOSE over a singleton set), so that
\* each is evaluated once.
\* ---------------------------------------------------------------------------
Zeros(n) == [i \in 1..n |-> 0]
Pad(b0, n) == CHOOSE r \in {Zeros(n - Len(b)) \o b : b \in {b0}} : TRUE
Shl(b0, n) == CHOOSE r \in {IF b = <<>> THEN b ELSE b \o Zeros(n) : b \in {b0}} : TRUE

RECURSIVE FirstOne(_, _, _)
FirstOneHalves(b, lo, mid, hi) ==
  CHOOSE r \in {IF l # 0 THEN l ELSE FirstOne(b, mid + 1, hi) : l \in {FirstOne(b, lo, mid)}} : TRUE
FirstOne(b, lo, hi) ==
  IF lo > hi THEN 0
  ELSE IF lo = hi THEN (IF b[lo] = 1 THEN lo ELSE 0)
  ELSE CHOOSE r \in {FirstOneHalves(b, lo, mid, hi) : mid \in {(lo + hi) \div 2}} : TRUE
StripZerosOf(b) ==
  CHOOSE r \in {IF f = 0 THEN <<>> ELSE SubSeq(b, f, Len(b)) : f \in {FirstOne(b, 1, Len(b))}} : TRUE
StripZeros(b0) == CHOOSE r \in {StripZerosOf(b) : b \in {b0}} : TRUE

FromNat(n) == StripZeros([i \in 1..31 |-> (n \div (2 ^ (31 - i))) % 2])

RECURSIVE CmpRange(_, _, _, _)
CmpHalves(a, b, lo, mid, hi) ==
  CHOOSE r \in {IF c # 0 THEN c ELSE CmpRange(a, b, mid + 1, hi) : c \in {CmpRange(a, b, lo, mid)}} : TRUE
CmpRange(a, b, lo, hi) ==
  IF lo > hi THEN 0
  ELSE IF lo = hi THEN a[lo] - b[lo]
  ELSE CHOOSE r \in {CmpHalves(a, b, lo, mid, hi) : mid \in {(lo + hi) \div 2}} : TRUE
Geq(a0, b0) ==
  CHOOSE r \in {IF Len(a) # Len(b) THEN Len(a) > Len(b) ELSE CmpRange(a, b, 1, Len(a)) >= 0 :
                  a \in {a0}, b \in {b0}} : TRUE

RECURSIVE AddRange(_, _, _, _, _)
AddJoin(a, b, lo, mid, low) ==
  CHOOSE r \in {[s |-> high.s \o low.s, c |-> high.c] :
                  high \in {AddRange(a, b, lo, mid, low.c)}} : TRUE
AddHalves(a, b, lo, mid, hi, c) ==
  CHOOSE r \in {AddJoin(a, b, lo, mid, low) : low \in {AddRange(a, b, mid + 1, hi, c)}} : TRUE
AddRange(a, b, lo, hi, c) ==
  IF lo = hi
  THEN [s |-> <<(a[lo] + b[lo] + c) % 2>>, c |-> (a[lo] + b[lo] + c) \div 2]
  ELSE CHOOSE r \in {AddHalves(a, b, lo, mid, hi, c) : mid \in {(lo + hi) \div 2}} : TRUE
AddPadded(a, b, n) ==
  CHOOSE x \in {IF r.c = 1 THEN <<1>> \o r.s ELSE r.s : r \in {AddRange(a, b, 1, n, 0)}} : TRUE
AddLen(a, b, n) ==
  IF n = 0 THEN <<>>
  ELSE CHOOSE r \in {AddPadded(pa, pb, n) : pa \in {Pad(a, n)}, pb \in {Pad(b, n)}} : TRUE
Add(a0, b0) ==
  CHOOSE r \in {AddLen(a, b, IF Len(a) > Len(b) THEN Len(a) ELSE Len(b)) :
                  a \in {a0}, b \in {b0}} : TRUE

RECURSIVE SubRange(_, _, _, _, _)
SubJoin(a, b, lo, mid, low) ==
  CHOOSE r \in {[s |-> high.s \o low.s, c |-> high.c] :
                  high \in {SubRange(a, b, lo, mid, low.c)}} : TRUE
SubHalves(a, b, lo, mid, hi, c) ==
  CHOOSE r \in {SubJoin(a, b, lo, mid, low) : low \in {SubRange(a, b, mid + 1, hi, c)}} : TRUE
SubRange(a, b, lo, hi, c) ==
  IF lo = hi
  THEN [s |-> <<(a[lo] - b[lo] - c + 2) % 2>>, c |-> IF a[lo] - b[lo] - c < 0 THEN 1 ELSE 0]
  ELSE CHOOSE r \in {SubHalves(a, b, lo, mid, hi, c) : mid \in {(lo + hi) \div 2}} : TRUE
\* a - b for a >= b of one width
SubW(a0, b0) ==
  CHOOSE r \in {IF a = <<>> THEN a ELSE SubRange(a, b, 1, Len(a), 0).s :
                  a \in {a0}, b \in {b0}} : TRUE

RECURSIVE MulRange(_, _, _, _, _)
MulHalves(a, b, acc, lo, mid, hi) ==
  CHOOSE r \in {MulRange(a, b, s, mid + 1, hi) : s \in {MulRange(a, b, acc, lo, mid)}} : TRUE
MulRange(a, b, acc, lo, hi) ==
  IF lo > hi THEN acc
  ELSE IF lo = hi THEN (IF b[lo] = 1 THEN Add(Shl(acc, 1), a) ELSE Shl(acc, 1))
  ELSE CHOOSE r \in {MulHalves(a, b, acc, lo, mid, hi) : mid \in {(lo + hi) \div 2}} : TRUE
Mul(a0, b0) ==
  CHOOSE r \in {IF a = <<>> THEN <<>> ELSE MulRange(a, b, <<>>, 1, Len(b)) :
                  a \in {a0}, b \in {b0}} : TRUE

\* long division: one bit of a into the remainder register, one bit of quotient out
DivStep(bp, q, r2) ==
  IF CmpRange(r2, bp, 1, Len(bp)) >= 0
  THEN [q |-> Append(q, 1), r |-> SubW(r2, bp)]
  ELSE [q |-> Append(q, 0), r |-> r2]
RECURSIVE DivRange(_, _, _, _, _)
DivHalves(a, bp, st, lo, mid, hi) ==
  CHOOSE r \in {DivRange(a, bp, s, mid + 1, hi) : s \in {DivRange(a, bp, st, lo, mid)}} : TRUE
DivRange(a, bp, st, lo, hi) ==
  IF lo > hi THEN st
  ELSE IF lo = hi
  THEN CHOOSE r \in {DivStep(bp, st.q, r2) : r2 \in {Append(Tail(st.r), a[lo])}} : TRUE
  ELSE CHOOSE r \in {DivHalves(a, bp, st, lo, mid, hi) : mid \in {(lo + hi) \div 2}} : TRUE
DivModPadded(a, bp, st0) ==
  CHOOSE x \in {[q |-> StripZeros(st.q), r |-> StripZeros(st.r)] :
                  st \in {DivRange(a, bp, st0, 1, Len(a))}} : TRUE
DivModOf(a, b) ==
  CHOOSE x \in {DivModPadded(a, bp, st0) :
                  bp \in {Pad(b, Len(b) + 1)},
                  st0 \in {[q |-> <<>>, r |-> Zeros(Len(b) + 1)]}} : TRUE
\* quotient and remainder of a by b > 0
DivMod(a0, b0) == CHOOSE x \in {DivModOf(a, b) : a \in {a0}, b \in {b0}} : TRUE

Ten == <<1, 0, 1, 0>>
RECURSIVE Pow10(_)
Pow10(k) ==
  IF k = 0 THEN <<1>>
  ELSE IF k % 2 = 1 THEN Mul(Pow10(k - 1), Ten)
  ELSE CHOOSE r \in {Mul(h, h) : h \in {Pow10(k \div 2)}} : TRUE

MantBits == 53
\* round to nearest, ties to even, of a quotient dm.q that has MantBits + 1 or + 2 bits
RoundRatUp(dm, s) ==
  LET extra == Len(dm.q) - MantBits
      m0 == SubSeq(dm.q, 1, MantBits)
      guard == dm.q[MantBits + 1]
      sticky == dm.r # <<>> \/ (extra = 2 /\ dm.q[MantBits + 2] = 1)
      up == guard = 1 /\ (sticky \/ m0[MantBits] = 1)
  IN CHOOSE r \in {IF Len(m1) > MantBits
                   THEN [m |-> SubSeq(m1, 1, MantBits), e |-> extra - s + 1]
                   ELSE [m |-> m1, e |-> extra - s] :
                     m1 \in {IF up THEN Add(m0, <<1>>) ELSE m0}} : TRUE
RoundRatOf(num, den, s) ==
  CHOOSE r \in {RoundRatUp(dm, s) :
                  dm \in {IF s >= 0 THEN DivMod(Shl(num, s), den)
                          ELSE DivMod(num, Shl(den, -s))}} : TRUE
\* the binary64 value nearest to num / den
RoundRat(num0, den0) ==
  CHOOSE r \in {RoundRatOf(num, den, MantBits + 1 - (Len(num) - Len(den))) :
                  num \in {num0}, den \in {den0}} : TRUE

\* the float of the literal a / 10^d
FloatOfDec(a, d) == RoundRat(FromNat(a), Pow10(d))
FloatMulOf(x, y) ==
  CHOOSE z \in {[m |-> r.m, e |-> r.e + x.e + y.e] : r \in {RoundRat(Mul(x.m, y.m), <<1>>)}} : TRUE
FloatMul(x0, y0) == CHOOSE z \in {FloatMulOf(x, y) : x \in {x0}, y \in {y0}} : TRUE
FloatDivOf(x, y) ==
  CHOOSE z \in {[m |-> r.m, e |-> r.e + x.e - y.e] : r \in {RoundRat(x.m, y.m)}} : TRUE
FloatDiv(x0, y0) == CHOOSE z \in {FloatDivOf(x, y) : x \in {x0}, y \in {y0}} : TRUE

\* the float x as the fraction Num(x) / Den(x)
Num(x) == IF x.e >= 0 THEN Shl(x.m, x.e) ELSE x.m
Den(x) == IF x.e >= 0 THEN <<1>> ELSE Shl(<<1>>, -x.e)

\* num / den rounded to the nearest integer, ties to even
RoundIntOf(dm, den) ==
  LET twice == Shl(dm.r, 1)
      odd == dm.q # <<>> /\ dm.q[Len(dm.q)] = 1
  IN IF twice = den THEN (IF odd THEN Add(dm.q, <<1>>) ELSE dm.q)
     ELSE IF Geq(twice, den) THEN Add(dm.q, <<1>>) ELSE dm.q
RoundIntDen(num, den) ==
  CHOOSE r \in {RoundIntOf(dm, den) : dm \in {DivMod(num, den)}} : TRUE
RoundInt(num0, den0) ==
  CHOOSE r \in {RoundIntDen(num, den) : num \in {num0}, den \in {den0}} : TRUE

\* the decimal exponent E with 10^E <= num / den < 10^(E + 1)
RECURSIVE Log10Up(_, _, _)
Log10Up(num, den, E) ==
  IF Geq(num, Mul(den, Pow10(E + 1))) THEN Log10Up(num, den, E + 1) ELSE E
RECURSIVE Log10Down(_, _, _)
Log10Down(num, den, k) ==
  IF Geq(Mul(num, Pow10(k)), den) THEN -k ELSE Log10Down(num, den, k + 1)
Log10(num0, den0) ==
  CHOOSE r \in {IF Geq(num, den) THEN Log10Up(num, den, 0) ELSE Log10Down(num, den, 1) :
                  num \in {num0}, den \in {den0}} : TRUE

\* the decimal of n significant digits nearest to the float v
NearestAt(v, k) ==
  [c |-> IF k >= 0 THEN RoundInt(Mul(Num(v), Pow10(k)), Den(v))
         ELSE RoundInt(Num(v), Mul(Den(v), Pow10(-k))),
   x |-> -k]
NearestOf(v, n) ==
  CHOOSE r \in {NearestAt(v, k) : k \in {n - 1 - Log10(Num(v), Den(v))}} : TRUE
Nearest(v0, n) == CHOOSE r \in {NearestOf(v, n) : v \in {v0}} : TRUE
\* float(d) of a decimal d # 0
DecToFloat(d0) ==
  CHOOSE r \in {IF d.x >= 0 THEN RoundRat(Mul(d.c, Pow10(d.x)), <<1>>)
                ELSE RoundRat(d.c, Pow10(-d.x)) : d \in {d0}} : TRUE
RoundTrips(v, n) == DecToFloat(Nearest(v, n)) = v
RECURSIVE FewestDigits(_, _, _)
FewestDigitsHalves(v, lo, mid, hi) ==
  IF RoundTrips(v, mid) THEN FewestDigits(v, lo, mid) ELSE FewestDigits(v, mid + 1, hi)
FewestDigits(v, lo, hi) ==
  IF lo >= hi THEN hi
  ELSE CHOOSE r \in {FewestDigitsHalves(v, lo, mid, hi) : mid \in {(lo + hi) \div 2}} : TRUE
\* repr(v): the shortest decimal that reads back as v
Repr(v0) == CHOOSE r \in {Nearest(v, FewestDigits(v, 1, 17)) : v \in {v0}} : TRUE

\* str(v) read by Decimal: the shortest digits that give v back; below 1e16 an
\* integral float is written with one fractional digit ("50.0").
DecimalOfStr(v) ==
  CHOOSE d \in {IF r.x >= 0 THEN [c |-> Mul(r.c, Pow10(r.x + 1)), x |-> -1] ELSE r :
                  r \in {Repr(v)}} : TRUE

\* Decimal's q // s: the integer part of the quotient.
FloorDiv(q0, s0) ==
  CHOOSE k \in {IF q.x >= s.x THEN DivMod(Mul(q.c, Pow10(q.x - s.x)), s.c).q
                ELSE DivMod(q.c, Mul(s.c, Pow10(s.x - q.x))).q :
                  q \in {q0}, s \in {s0}} : TRUE

\* Decimal's quantize(.., rounding=ROUND_DOWN) to the exponent x.
QuantizeDown(d0, x) ==
  CHOOSE r \in {IF d.x >= x THEN [c |-> Mul(d.c, Pow10(d.x - x)), x |-> x]
                ELSE [c |-> DivMod(d.c, Pow10(x - d.x)).q, x |-> x] : d \in {d0}} : TRUE

FloatOfDecimal(d0) ==
  CHOOSE r \in {IF d.c = <<>> THEN FloatZero ELSE DecToFloat(d) : d \in {d0}} : TRUE

\* rounded = (q // step_dec) * step_dec, then the quantize and the float()
Rounded(q, step_dec) ==
  FloatOfDecimal(QuantizeDown([c |-> Mul(FloorDiv(q, step_dec), step_dec.c), x |-> step_dec.x],
                              step_dec.x))

round_qty(qty0, step) ==
  CHOOSE r \in {Rounded(q, step_dec) :
                  step_dec \in {DecimalOfStr(step)}, q \in {DecimalOfStr(qty0)}} : TRUE

calculate_quantity(capital, leverage, price, step) ==
  LET notional == FloatMul(capital, FloatOfDec(leverage, 0))
  IN CHOOSE quantity \in {round_qty(raw_quantity, step) :
                            raw_quantity \in {FloatDiv(notional, price)}} : TRUE

\* The arguments of the calls explored: <<a, d>> is the literal a / 10^d.
QtyCapitals == {<<10, 1>>, <<45, 1>>, <<160, 1>>, <<7, 1>>, <<33, 1>>}
QtyLeverages == {1, 3, 50}
QtyPrices == {<<7, 1>>, <<3, 0>>, <<2000, 0>>, <<2050, 0>>}
QtySteps == {<<1, 3>>, <<1, 1>>}

Lit(p) == FloatOfDec(p[1], p[2])

InitQty ==
  /\ InitOf({StartFirst}) /\ brk = NoBracketCall /\ lk = NoLocks /\ gpa = NoPositionCall
  /\ qty \in {[capital |-> c, leverage |-> l, price |-> p, step |-> s,
               called |-> FALSE, returned |-> FloatZero] :
                c \in QtyCapitals, l \in QtyLeverages, p \in QtyPrices, s \in QtySteps}

CallCalculateQuantity ==
  /\ ~qty.called
  /\ qty' = [qty EXCEPT !.called = TRUE,
                        !.returned = calculate_quantity(Lit(qty.capital), qty.leverage,
                                                        Lit(qty.price), Lit(qty.step))]
  /\ UNCHANGED <<ledger, history, orders, exPos, young, hour, lock, hvars, mvars, brk, lk, gpa>>

NextQty == CallCalculateQuantity
SpecQty == InitQty /\ [][NextQty]_vars

\* ---------------------------------------------------------------------------
\* The trigger prices of the bracket orders (place_tp_sl_orders_with_retry,
\* main.py:526-587), on the same binary64 values.
\* ---------------------------------------------------------------------------
\* x + y and x - y (x > y > 0) of two floats, rounded to nearest
FloatAddOf(x, y) ==
  RoundRat(Add(Mul(Num(x), Den(y)), Mul(Num(y), Den(x))), Mul(Den(x), Den(y)))
FloatAdd(x0, y0) == CHOOSE z \in {FloatAddOf(x, y) : x \in {x0}, y \in {y0}} : TRUE
SubNat(a0, b0) == CHOOSE r \in {StripZeros(SubW(a, Pad(b, Len(a)))) : a \in {a0}, b \in {b0}} : TRUE
FloatSubOf(x, y) ==
  RoundRat(SubNat(Mul(Num(x), Den(y)), Mul(Num(y), Den(x))), Mul(Den(x), Den(y)))
FloatSub(x0, y0) == CHOOSE z \in {FloatSubOf(x, y) : x \in {x0}, y \in {y0}} : TRUE

\* x < y on floats >= 0
FloatLessOf(x, y) == ~Geq(Mul(Num(x), Den(y)), Mul(Num(y), Den(x)))
FloatLess(x0, y0) == CHOOSE b \in {FloatLessOf(x, y) : x \in {x0}, y \in {y0}} : TRUE

\* round(v, ndigits) of main.py:544-545: the exact value of v rounded to
\* ndigits decimals, ties to even, and the float nearest to that decimal
PyRound(v0, ndigits) ==
  CHOOSE r \in {FloatOfDecimal(NearestAt(v, ndigits)) : v \in {v0}} : TRUE

\* get_price_precision (main.py:345-360) for a tickSize d * 10^-k with one
\* digit d, given as <<d, k>>.  str(tick_size) is "0.0..0d" down to 0.0001 and
\* "de-0k" below: the latter has no ".", split('.')[1] raises, and the except
\* clause returns 2, as it does when fetch_symbol_info fails (f).
get_price_precision(tick, f) ==
  IF f THEN 2
  ELSE IF tick[2] = 0 THEN 0
  ELSE IF tick[2] <= 4 THEN tick[2]
  ELSE 2

\* main.py:528-545 and the arguments of the two futures_create_order calls
\* (556-563, 577-584)
BracketOrdersOf(signal, entry_price, tp_pct, sl_pct, price_precision, one) ==
  [tp_price |-> PyRound(FloatMul(entry_price,
                                 IF signal = "BUY" THEN FloatAdd(one, tp_pct)
                                 ELSE FloatSub(one, tp_pct)), price_precision),
   sl_price |-> PyRound(FloatMul(entry_price,
                                 IF signal = "BUY" THEN FloatSub(one, sl_pct)
                                 ELSE FloatAdd(one, sl_pct)), price_precision),
   tp_side |-> IF signal = "BUY" THEN "SELL" ELSE "BUY",
   sl_side |-> IF signal = "BUY" THEN "SELL" ELSE "BUY",
   close_position |-> TRUE]
BracketOrders(signal, entry_price, level, price_precision) ==
  CHOOSE r \in {BracketOrdersOf(signal, e, tp, sl, price_precision, one) :
                  e \in {entry_price},
                  tp \in {FloatOfDec(LEVELS[level].tp_pct, 3)},
                  sl \in {FloatOfDec(LEVELS[level].sl_pct, 3)},
                  one \in {FloatOfDec(1, 0)}} : TRUE

\* The calls explored: an entry price with the tickSize of its symbol, both as
\* literals (<<a, d>> is a / 10^d): 2000 and 2050.5 (ticks 0.01, 0.1), 30000.1
\* (0.1), 1.5 (0.001), 0.5 (0.0001), 0.25 and 0.12345 (0.00001).
BracketEntries ==
  { << <<2000, 0>>, <<1, 2>> >>, << <<20505, 1>>, <<1, 1>> >>,
    << <<300001, 1>>, <<1, 1>> >>, << <<15, 1>>, <<1, 3>> >>,
    << <<5, 1>>, <<1, 4>> >>, << <<25, 2>>, <<1, 5>> >>,
    << <<12345, 5>>, <<1, 5>> >> }

InitBracket ==
  /\ InitOf({StartFirst}) /\ qty = NoCall /\ lk = NoLocks /\ gpa = NoPositionCall
  /\ brk \in {[NoBracketCall EXCEPT !.entry = i[1], !.tick = i[2], !.signal = sig,
                                     !.level = l, !.fails = f] :
                i \in BracketEntries, sig \in Directions, l \in 1..NLevels, f \in BOOLEAN}

CallPlaceBrackets ==
  /\ ~brk.called
  /\ brk' = CHOOSE b \in
               {[brk EXCEPT !.called = TRUE,
                            !.tp_price = o.tp_price, !.sl_price = o.sl_price,
                            !.tp_side = o.tp_side, !.sl_side = o.sl_side,
                            !.close_position = o.close_position] :
                  o \in {BracketOrders(brk.signal, Lit(brk.entry), brk.level,
                                       get_price_precision(brk.tick, brk.fails))}} : TRUE
  /\ UNCHANGED <<ledger, history, orders, exPos, young, hour, lock, hvars, mvars, qty, lk, gpa>>

NextBracket == CallPlaceBrackets
SpecBracket == InitBracket /\ [][NextBracket]_vars

\* ---------------------------------------------------------------------------
\* get_position_amount (main.py:470-505) on what the exchange answers.  1 is
\* the 1.0 of main.py:480, amounts are in lots.
\* ---------------------------------------------------------------------------
BracketTypes == {"STOP_MARKET", "TAKE_PROFIT_MARKET"}
OrderTypes == BracketTypes \cup {"LIMIT"}
Abs(x) == IF x < 0 THEN -x ELSE x

\* (a variant for comparison) the account's position is asked first, the open
\* orders only when the account query fails
get_position_amount_by_account(open_types, f1, f2, row, amt) ==
  IF ~f2
  THEN (IF row /\ amt # 0 THEN Abs(amt) ELSE 0)
  ELSE IF ~f1 /\ open_types \cap BracketTypes # {} THEN 1
  ELSE 0

get_position_amount(open_types, f1, f2, row, amt) ==
  IF ~f1
  THEN (IF open_types \cap BracketTypes # {} THEN 1 ELSE 0)
  ELSE IF ~f2 /\ row /\ amt # 0 THEN Abs(amt)
  ELSE 0

PositionAmounts == {-2, 0, 2}

InitPosition ==
  /\ InitOf({StartFirst}) /\ qty = NoCall /\ brk = NoBracketCall /\ lk = NoLocks
  /\ gpa \in {[NoPositionCall EXCEPT !.open_types = T, !.f1 = f1, !.f2 = f2,
                                      !.row = row, !.amt = amt] :
                T \in SUBSET OrderTypes, f1 \in BOOLEAN, f2 \in BOOLEAN,
                row \in BOOLEAN, amt \in PositionAmounts}

CallGetPositionAmount ==
  /\ ~gpa.called
  /\ gpa' = [gpa EXCEPT !.called = TRUE,
                        !.returned = get_position_amount(gpa.open_types, gpa.f1, gpa.f2,
                                                         gpa.row, gpa.amt)]
  /\ UNCHANGED <<ledger, history, orders, exPos, young, hour, lock, hvars, mvars, qty, brk, lk>>

NextPosition == CallGetPositionAmount
SpecPosition == InitPosition /\ [][NextPosition]_vars

\* ---------------------------------------------------------------------------
\* The symbol locks (main.py:267-274) and their use by the two threads that
\* call get_symbol_lock: the event loop (H, process_trading_signal, main.py:890-
\* 891 and 1173-1174) and the monitor thread (M, monitor_loop, main.py:664-665
\* and 831-832).  A thread may be preempted between any two statements of
\* get_symbol_lock; lk.made counts the Lock objects created for a symbol and
\* lk.raced remembers that a thread called for a symbol without a lock while
\* the other thread was inside get_symbol_lock for it.
\* ---------------------------------------------------------------------------
progvars == <<ledger, history, envvars, lock, hvars, mvars, qty, brk, gpa>>
Other(t) == IF t = "H" THEN "M" ELSE "H"
LocksMade == lk.made["A"] + lk.made["B"]

\* lock = get_symbol_lock(symbol)  (main.py:664, 890): the call
GslCall(t, s) ==
  /\ lk.pc[t] = "idle"
  /\ lk' = [lk EXCEPT !.pc[t] = "enter", !.sym[t] = s,
                      !.raced = @ \/ (/\ lk.symbol_locks[s] = NoId
                                      /\ lk.pc[Other(t)] \in {"enter", "test", "store"}
                                      /\ lk.sym[Other(t)] = s)]
  /\ UNCHANGED progvars

\* (a variant for comparison) the body runs without state_lock
GslEnterUnlocked(t) ==
  /\ lk.pc[t] = "enter"
  /\ lk' = [lk EXCEPT !.pc[t] = "test"]
  /\ UNCHANGED progvars

\* with state_lock:  (main.py:271), waiting while the other thread is inside
GslEnter(t) ==
  /\ lk.pc[t] = "enter"
  /\ lk.state_lock = "free"
  /\ lk' = [lk EXCEPT !.state_lock = t, !.pc[t] = "test"]
  /\ UNCHANGED progvars

\* if symbol not in symbol_locks:  (main.py:272)
GslTest(t) ==
  /\ lk.pc[t] = "test"
  /\ lk' = [lk EXCEPT !.pc[t] = IF lk.symbol_locks[lk.sym[t]] = NoId
                                THEN "store" ELSE "load"]
  /\ UNCHANGED progvars

\* symbol_locks[symbol] = threading.Lock()  (main.py:273): a new Lock object
GslStore(t) ==
  /\ lk.pc[t] = "store"
  /\ LocksMade < MaxLocks
  /\ lk' = [lk EXCEPT !.symbol_locks[lk.sym[t]] = LocksMade + 1,
                      !.made[lk.sym[t]] = @ + 1,
                      !.pc[t] = "load"]
  /\ UNCHANGED progvars

\* return symbol_locks[symbol]  (main.py:274): the value returned is read
GslLoad(t) ==
  /\ lk.pc[t] = "load"
  /\ lk' = [lk EXCEPT !.got[t] = lk.symbol_locks[lk.sym[t]], !.pc[t] = "exit"]
  /\ UNCHANGED progvars

\* the end of the with block: state_lock is released, the caller has the lock
GslExit(t) ==
  /\ lk.pc[t] = "exit"
  /\ lk' = [lk EXCEPT !.state_lock = IF @ = t THEN "free" ELSE @, !.pc[t] = "have"]
  /\ UNCHANGED progvars

\* lock.acquire(blocking=False) (main.py:665) and lock.acquire(timeout=15)
\* (main.py:891): the lock is taken, or the call returns False while the
\* other thread holds it (the monitor continues, the handler raises)
LockAcquire(t) ==
  /\ lk.pc[t] = "have"
  /\ IF lk.owner[lk.got[t]] = "free"
     THEN lk' = [lk EXCEPT !.owner[lk.got[t]] = t, !.pc[t] = "held"]
     ELSE lk' = [lk EXCEPT !.pc[t] = "idle", !.got[t] = NoId]
  /\ UNCHANGED progvars

\* finally: lock.release()  (main.py:831-832, 1173-1174)
LockRelease(t) ==
  /\ lk.pc[t] = "held"
  /\ lk' = [lk EXCEPT !.owner[lk.got[t]] = "free", !.pc[t] = "idle", !.got[t] = NoId]
  /\ UNCHANGED progvars

NextLocks ==
  \E t \in Threads :
    \/ \E s \in Symbols : GslCall(t, s)
    \/ GslEnter(t)
    \/ GslTest(t)
    \/ GslStore(t)
    \/ GslLoad(t)
    \/ GslExit(t)
    \/ LockAcquire(t)
    \/ LockRelease(t)

InitLocks == InitOf({StartFirst}) /\ qty = NoCall /\ brk = NoBracketCall /\ lk = NoLocks /\ gpa = NoPositionCall
SpecLocks == InitLocks /\ [][NextLocks]_vars

\* ================================================================ claims
\* the persisted record of symbol s, as a sequence of at most one record
RecordOf(st, s) == IF Has(st.positions, s) THEN << Get(st.positions, s) >> ELSE << >>
LedgerRecords == {ledger.positions[i] : i \in 1..Len(ledger.positions)}

\* a step of process_trading_signal / of monitor_loop
HStep == hpc' # hpc
MStep == mpc' # mpc \/ mi' # mi

\* ---------------------------------------------------------------- C1
\* C1: process_trading_signal never submits a market entry order for a symbol
\* while a position opened by an earlier entry order of that symbol is still
\* open on the exchange.
C1_EntryOnlyWhenFlat ==
  [][(hpc = "h_entry" /\ hpc' = "h_wait") => ~exPos[HSym]]_vars

\* ---------------------------------------------------------------- C2
\* C2: whoever writes the positions of the ledger holds the lock of the symbol
\* it works on, and the monitor's copy of that symbol's record is the record as
\* it stands under the lock (not one read before the acquire).  A writer that
\* is neither the signal handler nor the monitor holds no lock at all.
C2_WritesUnderLock ==
  [][ledger'.positions # ledger.positions =>
       IF HStep THEN lock[HSym] = "H"
       ELSE IF MStep
       THEN lock[MSym] = "M" /\ RecordOf(mstate, MSym) = RecordOf(ledger, MSym)
       ELSE FALSE]_vars

\* ---------------------------------------------------------------- C3
\* C3: a ledger save made while working on one symbol leaves the persisted
\* record of every other symbol, and the alert entries other operations wrote,
\* as last written.
C3_OtherSymbolsUntouched ==
  [][/\ \A s \in Symbols :
          RecordOf(ledger', s) # RecordOf(ledger, s) =>
            (IF HStep THEN s = HSym ELSE IF MStep THEN s = MSym ELSE TRUE)
     /\ \A a \in AlertIds :
          ledger'.processed_alerts[a] # ledger.processed_alerts[a] =>
            /\ HStep
            /\ \/ a = HAlert
               \/ /\ ledger'.processed_alerts[a] = NoTime
                  /\ Old(ledger.processed_alerts[a], hour)]_vars

\* ---------------------------------------------------------------- C4
\* C4: in every ledger state each symbol has a single position record (hence at
\* most one active record); an open or re-open replaces the symbol's record.
C4_OneRecordPerSymbol ==
  \A i, j \in 1..Len(ledger.positions) :
    ledger.positions[i].symbol = ledger.positions[j].symbol => i = j

\* a record that was re-opened: the reinforcement of the level-1 record is active
C4_Witness ==
  /\ Has(ledger.positions, "A")
  /\ Get(ledger.positions, "A").is_active
  /\ Get(ledger.positions, "A").current_level = 2

\* ---------------------------------------------------------------- C5
\* C5: in every persisted record is_active and pending_reinforcement are never
\* both true.
C5_NotActiveAndPending ==
  \A r \in LedgerRecords : ~(r.is_active /\ r.pending_reinforcement)

\* the monitor has staged a reinforcement after the stop-loss of level 2
C5_Witness ==
  \E r \in LedgerRecords :
    r.pending_reinforcement /\ r.current_level = 2 /\ r.next_level = 3

\* ---------------------------------------------------------------- C6
\* C6: a persisted record with is_active = true has both tp_order_id and
\* sl_order_id set.
C6_ActiveHasBrackets ==
  \A r \in LedgerRecords : r.is_active => r.tp_order_id # NoId /\ r.sl_order_id # NoId

\* a level-1 open has been written and the handler has returned success
C6_Witness ==
  /\ hpc = "done" /\ hres = Result("success", "new")
  /\ \E r \in LedgerRecords : r.is_active /\ r.current_level = 1 /\ r.symbol = HSym

\* ---------------------------------------------------------------- C7
\* C7: the level of every record is in 1..N; a pending record's next_level is
\* the closed position's level + 1 and at most N; no position is opened at a
\* level above N.
C7_LevelsWithinLadder ==
  /\ \A r \in LedgerRecords :
       /\ r.current_level \in 1..NLevels
       /\ r.pending_reinforcement =>
            r.next_level = r.current_level + 1 /\ r.next_level <= NLevels
  /\ hpc \in {"h_final", "h_lev", "h_entry", "h_wait", "h_tp", "h_sl", "h_commit"} =>
       hlevel \in 1..NLevels

\* the top of the ladder has been opened: the record is active at level N
C7_Witness ==
  \E r \in LedgerRecords :
    r.is_active /\ r.current_level = NLevels /\ r.capital = LEVELS[NLevels].capital

\* ---------------------------------------------------------------- C8
\* C8: a signal whose alert id was recorded within the TTL makes no gateway
\* call and returns ignored / duplicate_alert.
C8_DuplicateIgnoredWithoutCalls ==
  hdup /\ hpc # "idle" =>
    /\ ~hcalls
    /\ hpc = "done" => hres = Result("ignored", "duplicate_alert")

\* ---------------------------------------------------------------- C9
\* C9: when the stop-loss order of an active record at a level L < N has
\* filled, the monitor's reconciliation of the symbol ends with the record at
\* is_active = false, pending_reinforcement = true, next_level = L + 1.
C9_StopLossStages ==
  [][(/\ mpc \in {"manual", "cleanup", "tp2", "sl2"}
      /\ mstate' # mstate
      /\ orders[MRec.sl_order_id].status = "FILLED"
      /\ MRec.current_level < NLevels)
     => LET r == Get(mstate'.positions, MSym)
        IN /\ ~r.is_active /\ r.pending_reinforcement
           /\ r.next_level = MRec.current_level + 1]_vars

\* ---------------------------------------------------------------- C10
\* C10: when the symbol's persisted record is pending with next_level <= N, an
\* accepted signal opens at next_level with that rung's capital and leverage in
\* the signal's direction, and the record it writes is active, not pending, at
\* that level and in that direction.
C10_PendingOpensNextLevel ==
  [][(/\ hpc = "h_commit" /\ hres'.status = "success"
      /\ Has(ledger.positions, HSym)
      /\ Get(ledger.positions, HSym).pending_reinforcement
      /\ Get(ledger.positions, HSym).next_level <= NLevels)
     => LET L1 == Get(ledger.positions, HSym).next_level
        IN /\ hlevel = L1
           /\ ledger' # ledger =>
                LET r == Get(ledger'.positions, HSym)
                IN /\ r.is_active /\ ~r.pending_reinforcement
                   /\ r.current_level = L1 /\ r.signal = hin.sig
                   /\ r.capital = LEVELS[L1].capital
                   /\ r.leverage = LEVELS[L1].leverage]_vars

\* the rows of the history sheet
HistoryRows == {history[i] : i \in 1..Len(history)}

\* ---------------------------------------------------------------- C11
\* C11: when the monitor handles a stop-loss fill at the top level N the record
\* becomes is_active = false, pending_reinforcement = false; a later signal for
\* the symbol is routed to a fresh open at level 1, and an accepted one writes a
\* level-1 record.
TopStopped(st, s) ==
  /\ Has(st.positions, s)
  /\ Get(st.positions, s).current_level = NLevels
  /\ ~Get(st.positions, s).is_active
  /\ ~Get(st.positions, s).pending_reinforcement

C11_TopLevelStopEndsChain ==
  [][/\ (mpc = "sl2" /\ mstate' # mstate /\ MRec.current_level = NLevels) =>
          /\ TopStopped(mstate', MSym)
          /\ ledger' # ledger => TopStopped(ledger', MSym)
     /\ (hpc = "h_route" /\ hpc' = "h_final" /\ TopStopped(ledger, HSym)) =>
          hlevel' = 1 /\ hpath' = "new"
     /\ (hpc = "h_commit" /\ hres'.status = "success" /\ TopStopped(ledger, HSym)
           /\ ledger' # ledger) =>
          /\ Get(ledger'.positions, HSym).current_level = 1
          /\ Get(ledger'.positions, HSym).is_active]_vars

\* the stop-loss of level N was taken by the monitor, the chain is closed, and
\* the next signal is on its way to a level-1 open
C11_Witness ==
  /\ \E h \in HistoryRows :
       h.type = "POSITION_CLOSED" /\ h.close_type = "STOP_LOSS" /\ h.level = NLevels
  /\ TopStopped(ledger, "A")
  /\ hpc = "h_final" /\ HSym = "A" /\ hlevel = 1

\* ---------------------------------------------------------------- C12
\* C12: whenever the monitor marks a record inactive because its take-profit
\* order filled, the cancel of the record's stop-loss order has been issued (in
\* that pass, ahead of the write), and it is the only cancel_order call ever
\* made for that stop-loss order.
C12_StopLossCancelledOnce ==
  [][(mpc = "tp2" /\ mstate' # mstate) =>
       /\ orders'[MRec.sl_order_id].cancel_calls = orders[MRec.sl_order_id].cancel_calls + 1
       /\ orders'[MRec.sl_order_id].cancel_calls = 1]_vars

\* ---------------------------------------------------------------- C13
\* C13: the monitor records a manual close only for a record past the grace
\* period, and only when the symbol has no resting bracket order and the
\* exchange reports a zero position for it; a record still in the grace period
\* is passed over without a history row, a cancel or a ledger change.
ManualCloseStep == mpc = "manual" /\ mstate' # mstate
GraceSkipStep ==
  mpc = "iter" /\ mi <= Len(mstate.positions) /\ MRec.is_active /\ InGrace(MRec) /\ mi' # mi

C13_ManualCloseOnlyWhenFlat ==
  [][/\ ManualCloseStep =>
          /\ ~InGrace(MRec)
          /\ OpenBrackets(MSym) = {}
          /\ ~exPos[MSym]
     /\ GraceSkipStep => UNCHANGED <<ledger, history, orders, mstate>>]_vars

\* ---------------------------------------------------------------- C14
\* C14: the history holds at most one POSITION_CLOSED row per opened position,
\* whatever the interleaving of handler and monitor and whether or not a
\* ledger save failed.
ClosedRows(pos) ==
  {i \in 1..Len(history) : history[i].type = "POSITION_CLOSED" /\ history[i].pos = pos}

C14_OneClosedRowPerPosition ==
  \A i \in 1..Len(orders) : Cardinality(ClosedRows(i)) <= 1

\* ---------------------------------------------------------------- C15
\* C15: a signal whose lock acquire times out is answered with an error (the
\* raised "symbol busy" exception reaches the caller as an HTTP error, it is
\* never dropped or reported as a success), and none of the steps taken for it
\* (the arrival, the position query, the timeout, the return) changes the
\* ledger, the history or the orders on the exchange.
C15_LockTimeoutRejects ==
  [][/\ (hpc = "h_lock" /\ lock[HSym] # "free" /\ HStep) =>
          /\ hpc' = "done"
          /\ hres' = Result("exception", "lock_timeout")
          /\ UNCHANGED <<ledger, history, orders, exPos, lock>>
     /\ (hpc \in {"idle", "h_pos0"} /\ HStep) => UNCHANGED <<ledger, history, orders, lock>>
     /\ (hpc = "done" /\ hres.reason = "lock_timeout" /\ HStep) =>
          UNCHANGED <<ledger, history, orders, lock>>]_vars

C15_Witness ==
  /\ hpc = "done" /\ hres = Result("exception", "lock_timeout")
  /\ lock[HSym] = "M"

\* ---------------------------------------------------------------- C16
\* C16: when the handler reaches the check of the bracket ids with the TP or
\* the SL id missing, the signal ends in an error, cancel_order has been called
\* for the entry order, and neither the ledger (so no is_active = true record)
\* nor the history (so no OPENED row) is written by that step.
C16_BracketFailureAborts ==
  [][(hpc = "h_commit" /\ (htp = NoId \/ hsl = NoId) /\ HStep) =>
       /\ hpc' = "done"
       /\ hres'.status = "exception" /\ hres'.reason = "tp_sl_failed"
       /\ hentry' = "CANCEL_SENT"
       /\ UNCHANGED <<ledger, history>>]_vars

C16_Witness ==
  /\ hpc = "done" /\ hres.reason = "tp_sl_failed" /\ hentry = "CANCEL_SENT"
  /\ exPos[HSym]
  /\ ~(Has(ledger.positions, HSym) /\ Get(ledger.positions, HSym).is_active)

\* ---------------------------------------------------------------- C17
\* C17: a signal refused for a missing signal value, a zero price or a computed
\* quantity <= 0 has been refused before any call to the exchange was made for
\* it, on the level-1 path and on the reinforcement path.
Refused == hpc = "done" /\ hres.reason \in {"missing_signal_or_price", "quantity_invalid"}

C17_RefusedBeforeGatewayCall == Refused => ~hcalls

\* ---------------------------------------------------------------- C18
\* C18: whatever the outcome of a signal, the caller is handed a result with
\* status success, ignored or error (and a reason when it is not a success);
\* no outcome leaves process_trading_signal as a raised exception.
C18_OutcomesAreStructured ==
  hpc = "done" =>
    /\ hres.status \in {"success", "ignored", "error"}
    /\ hres.status # "success" => hres.reason # ""

\* The largest multiple of the lot step s = <<a, d>> that is <= num / den, as the
\* float nearest to it.
LargestMultiple(num, den, s) ==
  LET k == DivMod(Mul(num, Pow10(s[2])), Mul(den, FromNat(s[1]))).q
  IN FloatOfDecimal([c |-> Mul(k, FromNat(s[1])), x |-> -s[2]])

\* capital x leverage / price with the arguments taken as the decimals written
QuotientWritten(q) ==
  [num |-> Mul(Mul(FromNat(q.capital[1]), FromNat(q.leverage)), Pow10(q.price[2])),
   den |-> Mul(Pow10(q.capital[2]), FromNat(q.price[1]))]

\* capital x leverage / price with the arguments taken as the binary64 values passed
QuotientPassed(q) ==
  CHOOSE r \in {[num |-> Mul(Mul(Num(c), FromNat(q.leverage)), Den(p)),
                 den |-> Mul(Den(c), Num(p))] :
                   c \in {Lit(q.capital)}, p \in {Lit(q.price)}} : TRUE

\* C19: for positive capital, leverage, price and lot step, calculate_quantity
\* returns the largest exact multiple of the lot step that is <= capital x
\* leverage / price (rounded down, never up), whether the quotient is taken of
\* the decimals written or of the binary64 values passed.
C19_LargestMultipleOfStep ==
  qty.called =>
    \E w \in {QuotientWritten(qty)}, p \in {QuotientPassed(qty)} :
      \/ qty.returned = LargestMultiple(w.num, w.den, qty.step)
      \/ qty.returned = LargestMultiple(p.num, p.den, qty.step)

\* C19's two examples: capital 1.0, leverage 50, lot step 0.001 give 0.025 at
\* price 2000 and 0.024 at price 2050.
C19_Examples ==
  (qty.called /\ qty.capital = <<10, 1>> /\ qty.leverage = 50 /\ qty.step = <<1, 3>>) =>
    /\ qty.price = <<2000, 0>> => qty.returned = Lit(<<25, 3>>)
    /\ qty.price = <<2050, 0>> => qty.returned = Lit(<<24, 3>>)

\* ---------------------------------------------------------------- C20
RecFilled(id) == id # NoId /\ orders[id].status = "FILLED"
\* the monitor closes the record, or cancels orders, on the path pc
MonitorActs(pc) == mpc = pc /\ mpc' # mpc /\ (mstate' # mstate \/ orders' # orders)

\* C20: a tick on a locked, past-grace active record follows the precedence TP
\* fill -> take-profit path, else SL fill -> stop-loss path, else position zero
\* and no resting bracket -> manual close, else the record and the exchange
\* orders stay as they are: a record whose TP or SL is filled is never closed as
\* a manual close, a filled TP is closed by the take-profit path and a filled SL
\* by the stop-loss path, and no other path touches the record or the orders.
C20_MonitorPrecedence ==
  [][/\ MonitorActs("manual") =>
          ~RecFilled(MRec.tp_order_id) /\ ~RecFilled(MRec.sl_order_id)
     /\ (mpc \in {"manual", "cleanup", "tp2", "sl2"} /\ mstate' # mstate) =>
          /\ RecFilled(MRec.tp_order_id) => mpc = "tp2"
          /\ (~RecFilled(MRec.tp_order_id) /\ RecFilled(MRec.sl_order_id)) => mpc = "sl2"
     /\ MonitorActs("cleanup") => FALSE]_vars

\* the part "a filled TP or SL is never handled as a manual close"
C20_FilledNeverManual ==
  [][MonitorActs("manual") =>
       ~RecFilled(MRec.tp_order_id) /\ ~RecFilled(MRec.sl_order_id)]_vars

\* the part "otherwise the record and the orders are left unchanged", for a tick
\* that saw no fill: the position is zero and a bracket order rests
C20_NoFillNoChange ==
  [][(mpc = "cleanup" /\ mpc' # mpc /\ ~RecFilled(MRec.tp_order_id) /\ ~RecFilled(MRec.sl_order_id)) =>
       UNCHANGED <<orders, mstate, ledger, history>>]_vars

\* what the branches do when the fill is seen by the second query
C20_PathsWhenTaken ==
  [][/\ MonitorActs("tp2") => orders[MRec.tp_order_id].status = "FILLED"
     /\ MonitorActs("sl2") => orders[MRec.sl_order_id].status = "FILLED"]_vars

\* ---------------------------------------------------------------- C21
TPFilledActive(s) ==
  /\ Has(ledger.positions, s) /\ Get(ledger.positions, s).is_active
  /\ orders[Get(ledger.positions, s).tp_order_id].status = "FILLED"
\* the record was closed through the take-profit branch
ClosedByTP(s) ==
  /\ Has(ledger.positions, s) /\ ~Get(ledger.positions, s).is_active
  /\ orders[Get(ledger.positions, s).sl_order_id].status # "NEW"
  /\ \E i \in 1..Len(history) :
       /\ history[i].type = "POSITION_CLOSED" /\ history[i].close_type = "TAKE_PROFIT"
       /\ history[i].pos = Get(ledger.positions, s).tp_order_id

\* C21: once the take-profit order of an active record is FILLED, and the
\* monitor keeps ticking with every call succeeding, the record is eventually
\* inactive through the take-profit path: the SL no longer rests and a
\* TAKE_PROFIT close is in the history.
C21_TakeProfitEventuallyHandled == TPFilledActive("A") ~> ClosedByTP("A")

\* the weaker end: the record is eventually inactive, by whatever path
C21_EventuallyInactive ==
  TPFilledActive("A") ~> ~Get(ledger.positions, "A").is_active

\* ---------------------------------------------------------------- C22
\* the monitor closes the record it is looking at by one of the three paths
MonitorCloses(pc) ==
  /\ mpc = pc
  /\ MRec.is_active /\ ~mstate'.positions[mi].is_active

NothingRests(ords, s) == \A i \in 1..Len(ords) : ords[i].sym = s => ords[i].status # "NEW"

\* C22: a close by the take-profit, stop-loss or manual path leaves no open
\* order of the symbol (the opposite bracket and every other order are
\* cancelled), appends one history row and persists the updated ledger.
C22_ClosingPathCancelsAll ==
  [][\A pc \in {"tp2", "sl2", "manual"} :
       MonitorCloses(pc) =>
         /\ NothingRests(orders', MSym)
         /\ Len(history') = Len(history) + 1
         /\ ledger' = mstate']_vars

\* what the three paths do: the opposite bracket of the record does not rest
\* afterwards, the row is appended and the ledger is the updated state
C22_OppositeBracketCancelled ==
  [][\A pc \in {"tp2", "sl2", "manual"} :
       MonitorCloses(pc) =>
         /\ orders'[MRec.tp_order_id].status # "NEW"
         /\ orders'[MRec.sl_order_id].status # "NEW"
         /\ Len(history') = Len(history) + 1
         /\ ledger' = mstate']_vars

\* ---------------------------------------------------------------- C23
\* the two cleanups: scenario 2 of the monitor and the pre-open cleanup
CleanupActs ==
  \/ mpc = "cleanup" /\ mpc' # mpc
  \/ hpc = "h_clean" /\ hpc' # hpc

\* C23: a failed query causes no destructive act.  When every query succeeds
\* a cleanup is entered only with no bracket order of the symbol resting, so
\* it cancels nothing; a cleanup that cancels a resting order was entered
\* because a position query failed.
C23_FailedQueryNeverCancels == [][CleanupActs => orders' = orders]_vars

\* the position queries themselves: "no position" is the answer only when
\* no bracket order of the symbol rests, as the successful query answers
C23_ZeroOnlyWithoutBrackets ==
  [][/\ (mpc = "spc" /\ mpc' = "all" /\ OpenBrackets(MSym) # {} => mposact' # 0)
     /\ (hpc = "h_pos0" /\ OpenBrackets(HSym) # {} => hpc' # "h_lock")]_vars

\* ---------------------------------------------------------------- C24
\* C24: an entry order that ended CANCELED, EXPIRED or REJECTED aborts the
\* open: the handler places no bracket order for it and does not finish with
\* the position recorded.
C24_RejectedEntryAborts ==
  hentry = "REJECTED" => hpc \notin {"h_tp", "h_sl", "h_commit"}

\* the open of a rejected entry does not end with the record written
C24_RejectedEntryNotRecorded ==
  [][hentry = "REJECTED" /\ hpc = "h_commit" => hres'.status # "success"]_vars

ClosedNotPending(st, s) ==
  /\ Has(st.positions, s)
  /\ ~Get(st.positions, s).is_active /\ ~Get(st.positions, s).pending_reinforcement

\* C26: a close by the take-profit or the manual path leaves the record
\* inactive with no reinforcement staged, whatever its level; and a signal
\* accepted for a symbol whose record is closed with nothing staged opens at
\* level 1 by the level-1 path, whatever current_level and next_level say.
C26_ProfitRestartsAtLevelOne ==
  [][/\ \A pc \in {"tp2", "manual"} :
          MonitorCloses(pc) => ClosedNotPending(mstate', MSym)
     /\ (hpc = "h_route" /\ hpc' = "h_final" /\ ClosedNotPending(hstate, HSym)
           => hlevel' = 1 /\ hpath' = "new")
     /\ (hpc = "h_commit" /\ hpath = "new" /\ ledger' # ledger
           => /\ Get(ledger'.positions, HSym).current_level = 1
              /\ Get(ledger'.positions, HSym).next_level = 1)]_vars

\* a reinforced position (level 2) took its profit in this run (the take-profit
\* branch called the cancel of its SL and saved the close), the record keeps
\* level 2 and next_level 2, and the next signal is on its way at level 1
C26_RestartAfterReinforcedProfit ==
  /\ hpc = "h_lev" /\ hlevel = 1 /\ hpath = "new"
  /\ ClosedNotPending(hstate, HSym)
  /\ Get(hstate.positions, HSym).current_level = 2
  /\ Get(hstate.positions, HSym).next_level = 2
  /\ orders[Get(hstate.positions, HSym).tp_order_id].status = "FILLED"
  /\ ~orders[Get(hstate.positions, HSym).tp_order_id].old
  /\ orders[Get(hstate.positions, HSym).sl_order_id].cancel_calls > 0
  /\ ClosedNotPending(ledger, HSym)

\* ---------------------------------------------------------------- C27
\* the monitor stands at the acquire for a record it would process, and the
\* lock of the symbol is taken
AtTakenLock ==
  /\ mpc = "iter" /\ mi <= Len(mstate.positions)
  /\ MRec.is_active /\ ~InGrace(MRec)
  /\ lock[MSym] # "free"

\* C27: the monitor's step at a taken lock skips the symbol: it goes on to the
\* next record of the same tick, calls nothing, changes neither the ledger, the
\* history, the orders nor the lock, and keeps the record as loaded, so that
\* the following ticks find it again.
C27_TakenLockSkipsSymbol ==
  [][AtTakenLock /\ (mi' # mi \/ mpc' # mpc) =>
       /\ mi' = mi + 1 /\ mpc' = "iter"
       /\ UNCHANGED <<ledger, history, orders, exPos, lock, mstate, mtp, msl, mposact, many>>]_vars

\* the handler holds the lock of A in the middle of an open while the monitor
\* reaches the active record of A
C27_MonitorMeetsHandler == AtTakenLock /\ lock["A"] = "H" /\ hpc = "h_route"

\* ---------------------------------------------------------------- C28
\* the entry order of the running open has been submitted
EntrySubmitted == hentry \in {"FILLED", "REJECTED"}

\* the positions of the open sequence, in the order of place_binance_order
OpenStage(pc) ==
  CASE pc = "h_lev" -> 1 [] pc = "h_entry" -> 2 [] pc = "h_wait" -> 3
    [] pc = "h_tp" -> 4 [] pc = "h_sl" -> 5 [] pc = "h_commit" -> 6
    [] OTHER -> 0

\* C28: the open runs leverage, entry order, fill wait, TP, SL in that order.
\* Before the entry step nothing of the open is on the exchange; the wait and
\* the bracket placement are reached only with the entry order submitted; a
\* bracket order is created only by the TP and SL steps; and when the
\* leverage call or the submission of the entry order fails the handler ends
\* with the error, having submitted no entry order (resp. no bracket order).
C28_OpenSequenceOrdered ==
  [][/\ (OpenStage(hpc) \in {1, 2} => ~EntrySubmitted /\ htp = NoId /\ hsl = NoId)
     /\ (OpenStage(hpc) \in {3, 4, 5, 6} => EntrySubmitted)
     /\ (OpenStage(hpc') > 1 /\ hpc' # hpc => OpenStage(hpc') = OpenStage(hpc) + 1)
     /\ (Len(orders') > Len(orders) => OpenStage(hpc) \in {4, 5})
     /\ (EntrySubmitted' /\ ~EntrySubmitted => OpenStage(hpc) = 2)
     /\ (OpenStage(hpc) \in {1, 2} /\ hpc' = "done" =>
           /\ hres' = Result("exception", "binance_error")
           /\ ~EntrySubmitted' /\ orders' = orders /\ exPos' = exPos)]_vars

\* the whole sequence has run: entry filled, both brackets placed after it
C28_SequenceCompleted ==
  /\ hpc = "h_commit" /\ hentry = "FILLED"
  /\ htp # NoId /\ hsl # NoId /\ htp < hsl
  /\ orders[htp].typ = "TP" /\ orders[hsl].typ = "SL"

\* ---------------------------------------------------------------- C29
\* one loop of place_tp_sl_orders_with_retry: at stage pc, with `id` the id it
\* returns and `nxt` the stage that follows.  htries counts the failed
\* attempts of the loop, so the attempt being made is number htries + 1.
RetryLoop(pc, id, id2, nxt) ==
  /\ (hpc = pc => htries < MaxRetries)
  /\ (hpc = pc /\ hpc' = pc /\ htries' # htries =>
        htries' = htries + 1 /\ orders' = orders /\ id2 = id)
  /\ (hpc = pc /\ hpc' # pc =>
        /\ hpc' = nxt /\ htries' = 0
        /\ \/ Len(orders') = Len(orders) + 1 /\ id2 = Len(orders')
           \/ orders' = orders /\ id2 = NoId /\ htries = MaxRetries - 1)
  /\ (hpc = pc => id = NoId)

\* C29: the TP loop and the SL loop each make at most 3 attempts and stop at
\* their first success; the SL loop starts afresh after the TP loop whether or
\* not a TP order was placed; each loop hands on the id of the order it
\* created, or the null id after three failures.
C29_BracketPlacementBounded ==
  [][/\ RetryLoop("h_tp", htp, htp', "h_sl")
     /\ RetryLoop("h_sl", hsl, hsl', "h_commit")
     /\ (hpc = "h_sl" => hsl' \in {NoId, Len(orders')} /\ htp' = htp)]_vars

\* the TP was given up after three failures and the SL was placed all the same
C29_SLPlacedAfterTPFailed ==
  hpc = "h_commit" /\ htp = NoId /\ hsl # NoId /\ orders[hsl].typ = "SL"

\* ---------------------------------------------------------------- C30
\* the trigger lies strictly beyond the entry price, on the given side
AboveEntry(price) == FloatLess(Lit(brk.entry), price)
BelowEntry(price) == FloatLess(price, Lit(brk.entry))

\* C30: both bracket orders are sent on the side opposite to the entry with
\* closePosition, the TP trigger lies on the profitable side of the entry
\* price and the SL trigger on the losing side: above and below for a BUY,
\* below and above for a SELL.
C30_TriggersOnTheirSides ==
  brk.called =>
    /\ brk.tp_side # brk.signal /\ brk.sl_side # brk.signal /\ brk.close_position
    /\ (brk.signal = "BUY" => AboveEntry(brk.tp_price) /\ BelowEntry(brk.sl_price))
    /\ (brk.signal = "SELL" => BelowEntry(brk.tp_price) /\ AboveEntry(brk.sl_price))

\* the sides and the closing semantics alone
C30_OppositeSideClosePosition ==
  brk.called =>
    /\ brk.tp_side # brk.signal /\ brk.sl_side # brk.signal /\ brk.close_position
    /\ brk.tp_side \in Directions /\ brk.sl_side \in Directions

\* the triggers never lie on the wrong side when the precision is that of the tick
C30_SidesWithTickPrecision ==
  (brk.called /\ get_price_precision(brk.tick, brk.fails) = brk.tick[2]) =>
    /\ (brk.signal = "BUY" => AboveEntry(brk.tp_price) /\ BelowEntry(brk.sl_price))
    /\ (brk.signal = "SELL" => BelowEntry(brk.tp_price) /\ AboveEntry(brk.sl_price))

\* ---------------------------------------------------------------- C31
\* seconds since an alert id was recorded
AlertAge(ts) == (hour - ts) * HourStep
\* the handler is at the duplicate test (main.py:1040) and the signal's alert
\* id is in the processed_alerts it loaded
DedupLookup ==
  /\ hpc = "h_route" /\ Route(hstate, HSym) # "reinf"
  /\ hstate.processed_alerts[HAlert] # NoTime

\* C31: at the duplicate test, an alert id recorded more than 3600 s earlier
\* is pruned with every other entry older than 3600 s, the signal is not
\* reported as duplicate_alert and goes on as a new signal (its id recorded
\* anew); an alert id recorded at most 3600 s earlier ends the signal with
\* ignored / duplicate_alert.
C31_DedupEntriesExpire ==
  [][DedupLookup /\ hpc' # hpc =>
       IF AlertAge(hstate.processed_alerts[HAlert]) > TTL
       THEN /\ hres' # Result("ignored", "duplicate_alert")
            /\ hpc' = "h_final" =>
                 /\ hstate'.processed_alerts[HAlert] = hour
                 /\ \A b \in AlertIds :
                      hstate'.processed_alerts[b] # NoTime =>
                        AlertAge(hstate'.processed_alerts[b]) <= TTL
       ELSE /\ hpc' = "done"
            /\ hres' = Result("ignored", "duplicate_alert")]_vars

\* the alert persisted more than 3600 s ago is accepted again: the handler is
\* past the duplicate test on the level-1 path with the id recorded anew
C31_ExpiredAlertAccepted ==
  /\ hpc = "h_final" /\ hpath = "new"
  /\ ledger.processed_alerts[HAlert] # NoTime
  /\ AlertAge(ledger.processed_alerts[HAlert]) > TTL
  /\ hstate.processed_alerts[HAlert] = hour

\* ---------------------------------------------------------------- C32
\* C32: at most one Lock object is ever created for a symbol, it stays in
\* symbol_locks once stored, every call of get_symbol_lock returns the
\* object stored for its symbol, and the two threads never hold the lock of
\* one symbol at the same time.
C32_OneLockPerSymbol ==
  /\ \A s \in Symbols :
       /\ lk.made[s] <= 1
       /\ lk.made[s] = 1 <=> lk.symbol_locks[s] # NoId
  /\ \A t \in Threads :
       lk.got[t] # NoId => lk.got[t] = lk.symbol_locks[lk.sym[t]]
  /\ ~(lk.pc["H"] = "held" /\ lk.pc["M"] = "held" /\ lk.sym["H"] = lk.sym["M"])

\* both threads referenced a symbol without a lock at the same time and came
\* back with the same object: the handler holds it, the monitor is about to
\* be refused
C32_ConcurrentFirstReference ==
  /\ lk.raced
  /\ lk.sym["H"] = lk.sym["M"]
  /\ lk.pc["H"] = "held" /\ lk.pc["M"] = "have"
  /\ lk.got["H"] # NoId /\ lk.got["M"] = lk.got["H"]

\* ---------------------------------------------------------------- C33
\* what the except and finally of main.py:829-832 leave behind when the
\* reconciliation of a symbol raises
ErrorContained ==
  (mpc \in {"manual", "cleanup"} /\ merr') =>
    /\ lock'[MSym] = "free"
    /\ mpc' = "iter" /\ mi' = mi + 1 /\ mstate' = mstate
    /\ ledger' = ledger

\* C33: when a call raises while a symbol is reconciled, the exception is
\* caught, the symbol's lock is released, the ledger is left as it was and
\* the loop goes on with the next symbol of the same tick; ticks begin and end
\* for ever, whatever fails (a failed ledger load gives a tick over no record).
C33_MonitorSurvivesErrors ==
  /\ [][ErrorContained]_vars
  /\ []<>(mpc = "sleep")
  /\ []<>(mpc = "iter")

\* the reconciliation of A has just raised: A's lock is free again and the
\* loop stands before B, the next record of the same tick
C33_NextSymbolAfterError ==
  /\ merr /\ mpc = "iter" /\ mi = 2
  /\ mstate.positions[1].is_active /\ mstate.positions[2].is_active
  /\ lock = [s \in Symbols |-> "free"]

\* ---------------------------------------------------------------- C34
\* the steps in which a thread gives a symbol's lock back
ReleasedByOwner ==
  \A s \in Symbols :
    /\ (lock[s] = "H" /\ lock'[s] # "H") => (lock'[s] = "free" /\ hpc # "done" /\ hpc' = "done")
    /\ (lock[s] = "M" /\ lock'[s] # "M") => (lock'[s] = "free" /\ mpc' = "iter")
    /\ (hpc # "done" /\ hpc' = "done") => lock'[s] # "H"
    /\ mpc' \in {"sleep", "iter"} => lock'[s] # "M"

\* C34: a symbol's lock taken by the handler or by the monitor is given back
\* by the thread that took it, on every way out (result, refusal, exception,
\* continue), and it always is given back: no lock stays taken for ever.
C34_LocksAlwaysReleased ==
  /\ [][ReleasedByOwner]_vars
  /\ \A s \in Symbols : (lock[s] = "H") ~> (lock[s] = "free")
  /\ \A s \in Symbols : (lock[s] = "M") ~> (lock[s] = "free")

\* the handler has left through its exception path (a bracket order could not
\* be placed) and the symbol's lock is free again
C34_ReleasedAfterException ==
  /\ hpc = "done" /\ hres = Result("exception", "tp_sl_failed")
  /\ lock[HSym] = "free"

\* ---------------------------------------------------------------- C35
Finished == {"FILLED", "CANCELED", "EXPIRED"}
\* the record's bracket orders as the monitor classified them, one FILLED and
\* classified not active, the other resting
OneFilledOtherResting ==
  /\ MRec.tp_order_id # NoId /\ MRec.sl_order_id # NoId
  /\ \/ /\ ~mtp /\ orders[MRec.tp_order_id].status = "FILLED"
        /\ msl /\ orders[MRec.sl_order_id].status = "NEW"
     \/ /\ ~msl /\ orders[MRec.sl_order_id].status = "FILLED"
        /\ mtp /\ orders[MRec.tp_order_id].status = "NEW"
\* the monitor is past the queries of main.py:681-697 and takes a step
AfterQueries == mpc \in {"all", "manual", "cleanup", "tp2", "sl2"} /\ mpc' # mpc
MonitorQuiet == ledger' = ledger /\ orders' = orders /\ mstate' = mstate

ClassifiedAndEntered ==
  /\ (mpc = "tp1" /\ mpc' = "sl1" /\ ~mtp' /\ MRec.tp_order_id # NoId)
        => orders[MRec.tp_order_id].status \in Finished
  /\ (mpc = "sl1" /\ mpc' = "spc" /\ ~msl' /\ MRec.sl_order_id # NoId)
        => orders[MRec.sl_order_id].status \in Finished
  /\ (mpc = "tp2" /\ mstate' # mstate)
        => mtp /\ SeenFilled(orders[MRec.tp_order_id].status)
  /\ (mpc = "sl2" /\ mstate' # mstate)
        => msl /\ SeenFilled(orders[MRec.sl_order_id].status)
  /\ (AfterQueries /\ OneFilledOtherResting /\ mposact # 0) => MonitorQuiet

BracketResting == gpa.open_types \cap BracketTypes # {}
Exposure == gpa.row /\ gpa.amt # 0

C36_PositionFromBracketOrders ==
  gpa.called =>
    /\ ~gpa.f1 => ((gpa.returned # 0) <=> BracketResting)
    /\ ~gpa.f1 => gpa.returned \in {0, 1}
    /\ (gpa.f1 /\ ~gpa.f2) => ((gpa.returned # 0) <=> Exposure)
    /\ (gpa.f1 /\ gpa.f2) => gpa.returned = 0

\* an open exposure with no resting bracket order is reported as zero
C36_ExposureReportedZero ==
  /\ gpa.called /\ ~gpa.f1 /\ ~gpa.f2
  /\ Exposure /\ ~BracketResting /\ "LIMIT" \in gpa.open_types
  /\ gpa.returned = 0


\* ---------------------------------------------------------------------------
\* C37: a signal for a record with pending_reinforcement and a valid
\* next_level activates the reinforcement without reading or writing the
\* alert dedup set: it is never answered duplicate_alert, the routing leaves
\* the loaded processed_alerts and the saved ledger as they are, and the
\* save of the opened reinforcement writes the processed_alerts that were
\* loaded, without the alert id of the signal.
\* ---------------------------------------------------------------------------
PendingValid ==
  /\ Has(hstate.positions, HSym)
  /\ Get(hstate.positions, HSym).pending_reinforcement
  /\ Get(hstate.positions, HSym).next_level <= NLevels

ReinforcementSkipsDedup ==
  /\ (hpc = "h_route" /\ PendingValid) =>
       /\ hres'.reason # "duplicate_alert"
       /\ ledger' = ledger
       /\ hpc' = "h_final" =>
            (hpath' = "reinf" /\ hstate'.processed_alerts = hstate.processed_alerts)
  /\ (hpc = "h_commit" /\ hpath = "reinf") =>
       /\ hstate.processed_alerts = ledger.processed_alerts
       /\ ledger'.processed_alerts = ledger.processed_alerts

C37_ReinforcementIgnoresDedup == [][ReinforcementSkipsDedup]_vars

\* a signal whose alert id is recorded within the TTL has opened the
\* reinforcement, and the saved entry of its alert id is the old one
C37_DuplicateOpenedReinforcement ==
  /\ hpc = "done" /\ hdup
  /\ hres = Result("success", "reinf")
  /\ Has(ledger.positions, HSym)
  /\ Get(ledger.positions, HSym).is_active
  /\ Get(ledger.positions, HSym).current_level > 1
  /\ ledger.processed_alerts = StartStopped1.ledger.processed_alerts


\* ---------------------------------------------------------------------------
\* C38: a signal for a symbol whose record is active while get_position_amount
\* returned 0: the handler marks the record inactive in memory and appends a
\* history row of close type AUTO_CLEANUP_PRE_OPEN, whether or not the record
\* is in its grace period, stages no reinforcement (pending_reinforcement and
\* next_level stay as they were), saves nothing at that point, and goes on by
\* the level-1 path: every position it then opens is opened at level 1, also
\* when the stop-loss of a level below the top was filled and the monitor has
\* not handled it.
\* ---------------------------------------------------------------------------
HRec == Get(hstate.positions, HSym)
OrphanSeen == hpc = "h_clean" /\ Has(hstate.positions, HSym) /\ HRec.is_active

PreOpenCleanup ==
  /\ (OrphanSeen /\ hpc' # hpc) =>
       /\ hpc' = "h_route"
       /\ Has(hstate'.positions, HSym)
       /\ Get(hstate'.positions, HSym) = [HRec EXCEPT !.is_active = FALSE]
       /\ ~Get(hstate'.positions, HSym).pending_reinforcement
       /\ Route(hstate', HSym) = "new"
       /\ ledger' = ledger
       /\ Len(history) < MaxHist =>
            history' = Append(history,
                              HistRow("POSITION_CLOSED", HSym, HRec.current_level,
                                      "AUTO_CLEANUP_PRE_OPEN", HRec.tp_order_id))
  /\ (hpc = "h_route" /\ hpc' = "h_final") => (hpath' = "new" /\ hlevel' = 1)
  /\ (hpc = "h_commit" /\ hres'.status = "success") => hres'.reason = "new"
  /\ (hpc = "h_commit" /\ ledger' # ledger) =>
       /\ Has(ledger'.positions, HSym)
       /\ Get(ledger'.positions, HSym).is_active
       /\ Get(ledger'.positions, HSym).current_level = 1

C38_HandlerCleansAndOpensLevelOne == [][PreOpenCleanup]_vars

\* the stop-loss of level 2 is filled, the record is still in its grace
\* period, and the handler has cleaned the record and opened level 1
C38_OpenedLevelOneAfterStop ==
  /\ hpc = "done" /\ hres = Result("success", "new")
  /\ orders[StartReinforced.ledger.positions[1].sl_order_id].status = "FILLED"
  /\ InGrace(StartReinforced.ledger.positions[1])
  /\ \E i \in 1..Len(history) :
       history[i] = HistRow("POSITION_CLOSED", "A", StartReinforced.ledger.positions[1].current_level,
                            "AUTO_CLEANUP_PRE_OPEN", StartReinforced.ledger.positions[1].tp_order_id)
  /\ Get(ledger.positions, "A").is_active
  /\ Get(ledger.positions, "A").current_level = 1
  /\ StartReinforced.ledger.positions[1].current_level < NLevels


\* ---------------------------------------------------------------------------
\* C39: process_trading_signal saves the ledger on three paths only: the
\* successful level-1 open, the successful reinforcement open and the reset of
\* a pending record whose next_level is beyond the ladder.  Any other step of
\* the handler, and so any run that ends ignored, with an error result or with
\* an exception without passing the reset, leaves the saved ledger as it was:
\* the alert recorded in memory, the pending_reinforcement flag and the
\* in-memory cleanup of an orphan record are not saved, whatever was cancelled
\* on the exchange in between.
\* ---------------------------------------------------------------------------
HandlerStep == hvars' # hvars
SavesOpen == hpc = "h_commit" /\ hres' = Result("success", hpath)
SavesReset == hpc = "h_route" /\ Route(hstate, HSym) = "reset"

PersistsOnThreePaths ==
  HandlerStep =>
    /\ ledger' # ledger => (SavesOpen \/ SavesReset)
    /\ SavesOpen =>
         ledger' \in {ledger, OpenedState(hstate, HSym, hpath, hin.sig, hlevel, htp, hsl)}
    /\ SavesReset => ledger' \in {ledger, ResetPending(hstate, HSym)}
    /\ (hpc' = "done" /\ hres'.status # "success" /\ ~SavesReset) => ledger' = ledger

C39_LedgerSavedOnThreePathsOnly == [][PersistsOnThreePaths]_vars

\* the run cleaned the orphan record of A in memory, recorded the alert in
\* memory and ended on the conflict of the final check: the saved record is
\* still active, the alert is not in the saved dedup set, and the take-profit
\* of the record, placed by this process, is cancelled
C39_CleanupAndAlertNotSaved ==
  /\ hpc = "done"
  /\ hres = Result("error", "position_conflict_final_check")
  /\ Has(ledger.positions, HSym)
  /\ Get(ledger.positions, HSym).is_active
  /\ ledger.processed_alerts[HAlert] = NoTime
  /\ ~orders[Get(ledger.positions, HSym).tp_order_id].old
  /\ orders[Get(ledger.positions, HSym).tp_order_id].status = "CANCELED"


\* ---------------------------------------------------------------------------
\* C40: an open that fails with exactly one of the two bracket orders placed
\* sends a cancel for the entry order only: the step leaves every order of the
\* exchange as it was, so the placed bracket order keeps resting, and saves
\* nothing, so no record refers to it.  An order that no record (saved or
\* loaded) refers to is never referred to later, which keeps it out of the
\* monitor's status queries; and while such an order rests,
\* get_position_amount, with its open-orders query answered, reports a
\* position for the symbol, whatever the account holds.
\* ---------------------------------------------------------------------------
RefersTo(st, i) ==
  \E k \in 1..Len(st.positions) :
    st.positions[k].tp_order_id = i \/ st.positions[k].sl_order_id = i
Unreferenced(i) ==
  /\ i \in 1..Len(orders)
  /\ ~RefersTo(ledger, i) /\ ~RefersTo(hstate, i) /\ ~RefersTo(mstate, i)
  /\ i \notin {htp, hsl}
StrayResting(i) == Unreferenced(i) /\ orders[i].status = "NEW"
OneBracketPlaced == hpc = "h_commit" /\ ((htp = NoId) # (hsl = NoId))
Placed == IF htp # NoId THEN htp ELSE hsl

PlacedBracketLeftResting ==
  /\ (OneBracketPlaced /\ hpc' # hpc) =>
       /\ hres' = Result("exception", "tp_sl_failed")
       /\ hentry' = "CANCEL_SENT"
       /\ orders' = orders
       /\ ledger' = ledger
       /\ ~RefersTo(ledger', Placed) /\ ~RefersTo(hstate', Placed) /\ ~RefersTo(mstate', Placed)
       /\ Placed \notin {htp', hsl'}
  /\ \A i \in 1..Len(orders) :
       Unreferenced(i) =>
         /\ ~RefersTo(ledger', i) /\ ~RefersTo(hstate', i) /\ ~RefersTo(mstate', i)
         /\ i \notin {htp', hsl'}
  /\ \A i \in 1..Len(orders) :
       StrayResting(i) =>
         \A f2 \in BOOLEAN : GetPositionAmount(orders[i].sym, FALSE, f2) > 0

====
